---- MODULE Spec2Model ----
(***************************************************************************)
(* A model of aurelia-class-enhancements (src/src/index.js).               *)
(*                                                                         *)
(* enhance(...enhancements)(Target) folds proxyClass over the enhancement  *)
(* classes.  A proxied class merges the `inject` lists of both classes     *)
(* (getInjectData), builds both instances on construction and wraps them   *)
(* with enhanceInstance, whose `get` trap returns composeMethod closures.  *)
(*                                                                         *)
(* Classes are numbered: 0 is the Target, k >= 1 is the k-th enhancement   *)
(* in declaration order.  JavaScript values are modelled as records so     *)
(* that values of different shapes can always be compared.                 *)
(***************************************************************************)
EXTENDS Integers, Sequences, FiniteSets, TLC

\* ------------------------------------------------------------------ bounds
MaxEnh == 2      \* enhancement classes given to enhance()
MaxTok == 3      \* distinct dependency tokens
MaxLen == 2      \* length of a declared inject list
MaxVal == 2      \* distinct resolved dependency values
ChainTok == 2    \* distinct dependency tokens of a chain of several enhancements
ChainLen == 2    \* length of a declared inject list in such a chain
MaxArg == 2      \* distinct call arguments
MaxKey == 2      \* distinct own property keys of the instances
MaxToggle == 2   \* times the hook is installed on or removed from the Target instance
MaxCalls == 2    \* calls of the method that may overlap
MaxChange == 2   \* changes made to the declared lists after composing

\* Dependency tokens are JavaScript values: strings, numbers, and classes
\* (objects with an identity of their own, and their source text).
StringToken(text) == [type |-> "string", text |-> text, id |-> 0]
NumberToken(digits) == [type |-> "number", text |-> digits, id |-> 0]
ClassToken(id, text) == [type |-> "class", text |-> text, id |-> id]

TokName == <<StringToken("A"), StringToken("__proto__"),
             ClassToken(1, "class Service {}"), ClassToken(2, "class Service {}"),
             NumberToken("1"), StringToken("1")>>
ValName == <<"a", "b", "c", "d", "e", "f">>
Tokens == {TokName[i] : i \in 1..MaxTok}
Values == {ValName[i] : i \in 1..MaxVal}
Undefined == "undefined"

VARIABLES
  n,        \* number of enhancement classes
  inject,   \* inject[c]: the static `inject` of class c (may be absent)
  enhM,     \* enhM[k]: what enhancement k's method `m` does ("none": not defined)
  baseM,    \* what the Target's `m` is
  hook,     \* the Target instance's enhanced<M>Return ("none", "ok", "throws")
  how,      \* how the composed class was built
  Sut,      \* the composed class
  sut,      \* the instance constructed from Sut
  resolve,  \* the container's resolution of tokens to values
  ctorLog,  \* constructor invocations, in order
  calls,    \* calls[c]: state of the c-th call of sut.m(...)
  log,      \* invocations of user methods, in order
  statics,  \* statics[c]: class c declares the static property `staticProp`
  own,      \* own[c]: the own keys an instance of class c has, in creation order
  out       \* what the last reflective operation on Sut or sut answered

vars == <<n, inject, enhM, baseM, hook, how, Sut, sut, resolve, ctorLog, calls, log,
          statics, own, out>>

\* --------------------------------------------------------- small helpers
Min(a, b) == IF a < b THEN a ELSE b

Range(s) == {s[i] : i \in 1..Len(s)}

NoRepeat(s) == \A i, j \in 1..Len(s) : s[i] = s[j] => i = j

\* All sequences over S of length at most k.
SeqsUpTo(S, k) == UNION {[1..len -> S] : len \in 0..k}

\* A static `inject` property: a declared array, or no property at all.
Absent == [def |-> FALSE, list |-> <<>>]
Declared(l) == [def |-> TRUE, list |-> l]
DeclsOver(T, k) == {Absent} \cup {Declared(l) : l \in {s \in SeqsUpTo(T, k) : NoRepeat(s)}}
InjectDecls == DeclsOver(Tokens, MaxLen)
ChainTokens == {TokName[i] : i \in 1..ChainTok}
ChainDecls == DeclsOver(ChainTokens, ChainLen)

\* The resolutions a container may make: any assignment of values to the
\* tokens, among them the one that gives every token a value of its own.
OwnValue == [t \in Tokens \cup ChainTokens |-> ValName[CHOOSE i \in 1..Len(TokName) : TokName[i] = t]]
Resolutions(k) == IF k = 1 THEN [Tokens -> Values] \cup {OwnValue} ELSE {OwnValue}

\* ------------------------------------------------- getInjectData (75-108)
\* A default parameter: `target = []` replaces an undefined argument.
DefaultList(x) == IF x.def THEN x.list ELSE <<>>

\* Array.prototype.indexOf, 0-based, -1 when the element is not there.
indexOf(list, dep) ==
  IF \E i \in 1..Len(list) : list[i] = dep
  THEN (CHOOSE i \in 1..Len(list) : list[i] = dep /\ \A j \in 1..(i - 1) : list[j] # dep) - 1
  ELSE -1

\* String(dep): a string is itself, a number is its numeral, a class is
\* its source text.
StringOf(dep) == dep.text

\* The property key a plain object is indexed with by obj[dep]: the string
\* String(dep), so tokens that are not strings may share a key.
PropertyKey(dep) == StringToken(StringOf(dep))

\* obj[dep] = value on the plain object enhancementPositions (80, 84): the
\* key __proto__ is the accessor of Object.prototype, whose setter ignores
\* a number and stores nothing on the object.
ProtoKey == StringToken("__proto__")
SetProperty(obj, dep, value) ==
  IF PropertyKey(dep) = ProtoKey THEN obj ELSE (PropertyKey(dep) :> value) @@ obj

\* One round of enhancement.forEach: st is [list, enhancementPositions].
forEachDepSkip(st, dep) ==
  LET targetIndex == indexOf(st.list, dep) IN
  IF targetIndex > -1
  THEN [list |-> st.list,
        enhancementPositions |-> SetProperty(st.enhancementPositions, dep, targetIndex)]
  ELSE [list |-> st.list,
        enhancementPositions |-> SetProperty(st.enhancementPositions, dep, Len(st.list))]

forEachDepDup(st, dep) ==
  [list |-> Append(st.list, dep),
   enhancementPositions |-> SetProperty(st.enhancementPositions, dep, Len(st.list))]

forEachDep(st, dep) ==
  LET targetIndex == indexOf(st.list, dep) IN
  IF targetIndex > -1
  THEN [list |-> st.list,
        enhancementPositions |-> SetProperty(st.enhancementPositions, dep, targetIndex)]
  ELSE [list |-> Append(st.list, dep),
        enhancementPositions |-> SetProperty(st.enhancementPositions, dep, Len(st.list))]

RECURSIVE forEach(_, _, _)
forEach(enhancement, i, st) ==
  IF i > Len(enhancement) THEN st
  ELSE forEach(enhancement, i + 1, forEachDep(st, enhancement[i]))

\* The closure state of getInjectData: the merged list, the two arrays the
\* returned functions close over, and the positions object.
getInjectData(targetArg, enhancementArg) ==
  LET target == DefaultList(targetArg)
      enhancement == DefaultList(enhancementArg)
      st == forEach(enhancement, 1, [list |-> target, enhancementPositions |-> <<>>])
  IN [list |-> st.list,
      target |-> target,
      enhancement |-> enhancement,
      enhancementPositions |-> st.enhancementPositions]

\* values[i] for a 0-based index i: undefined outside the array, and
\* undefined for an index that is itself undefined.
At(values, i) == IF i >= 0 /\ i < Len(values) THEN values[i + 1] ELSE Undefined

\* values.slice(0, target.length)
getForTarget(injectData, values) ==
  SubSeq(values, 1, Min(Len(values), Len(injectData.target)))

\* enhancement.map((dep) => values[enhancementPositions[dep]]); a key the
\* object does not have reads undefined (or, for __proto__, the prototype
\* object), and values[...] of that is undefined.
getForEnhancement(injectData, values) ==
  [i \in 1..Len(injectData.enhancement) |->
     LET key == PropertyKey(injectData.enhancement[i]) IN
     IF key \in DOMAIN injectData.enhancementPositions
     THEN At(values, injectData.enhancementPositions[key])
     ELSE Undefined]

\* ------------------------------------------------------ classes (248-324)
\* A class written by the user, and the placeholder for "no class yet".
RawClass(c) == [raw |-> TRUE, id |-> c]
NoClass == [raw |-> TRUE, id |-> -1]
IsProxyClass(Cls) == ~Cls.raw

\* Cls.inject: the proxy's get trap answers `inject` with injectData.list
\* (281); a user class answers with its own static property.
StaticInject(Cls, inj) ==
  IF Cls.raw THEN inj[Cls.id] ELSE Declared(Cls.injectData.list)

\* proxyClass: the handler closes over Enhancement and injectData.
proxyClassSwapped(Target, Enhancement, inj) ==
  [raw |-> FALSE, Target |-> Target, Enhancement |-> Enhancement,
   injectData |-> getInjectData(inj[Enhancement], StaticInject(Target, inj))]

proxyClass(Target, Enhancement, inj) ==
  [raw |-> FALSE, Target |-> Target, Enhancement |-> Enhancement,
   injectData |-> getInjectData(StaticInject(Target, inj), inj[Enhancement])]

\* enhancements.reduce((Current, Enhancement) => proxyClass(Current, Enhancement), Target)
RECURSIVE reduce(_, _, _, _)
reduce(enhancements, i, Current, inj) ==
  IF i > Len(enhancements) THEN Current
  ELSE reduce(enhancements, i + 1, proxyClass(Current, enhancements[i], inj), inj)

RECURSIVE reduceRight(_, _, _, _)
reduceRight(enhancements, i, Current, inj) ==
  IF i < 1 THEN Current
  ELSE reduceRight(enhancements, i - 1, proxyClass(Current, enhancements[i], inj), inj)

enhanceReversed(enhancements, Target, inj) ==
  reduceRight(enhancements, Len(enhancements), Target, inj)

enhance(enhancements, Target, inj) == reduce(enhancements, 1, Target, inj)

\* The enhancement classes 1..k in declaration order.
EnhList(k) == [i \in 1..k |-> i]

\* enhance(E_k)(... enhance(E_1)(Target)): one application per enhancement.
RECURSIVE nested(_, _)
nested(k, inj) ==
  IF k = 0 THEN RawClass(0) ELSE enhance(<<k>>, nested(k - 1, inj), inj)

\* ---------------------------------------------------- instances (164, 261)
NoInstance == [raw |-> TRUE, cls |-> -1, args |-> <<>>]

\* enhanceInstance: the proxy over target, closing over ProxyClass and
\* enhancement.
enhanceInstance(ProxyClass, target, enhancement) ==
  [raw |-> FALSE, ProxyClass |-> ProxyClass, target |-> target, enhancement |-> enhancement]

\* The prototype objects of the user's classes.
Prototype(c) == [prototype |-> c]

\* The proxy has no getPrototypeOf trap (165-236): the question goes to
\* its target.
getPrototypeOfEnhancement(inst) == Prototype(inst.enhancement.cls)

RECURSIVE getPrototypeOf(_)
getPrototypeOf(inst) ==
  IF inst.raw THEN Prototype(inst.cls) ELSE getPrototypeOf(inst.target)

\* inst instanceof C for a class C the user wrote (no class extends another).
instanceOf(inst, c) == getPrototypeOf(inst) = Prototype(c)

constructFlat(Cls, args) ==
  IF Cls.raw
  THEN [instance |-> [raw |-> TRUE, cls |-> Cls.id, args |-> args],
        ctors |-> <<[cls |-> Cls.id, target |-> NoInstance, args |-> args]>>]
  ELSE LET targetArgs == getForTarget(Cls.injectData, args)
           targetInstance == [raw |-> TRUE, cls |-> 0, args |-> targetArgs]
           enhancementArgs == getForEnhancement(Cls.injectData, args)
           enhancementInstance ==
             [cls |-> Cls.Enhancement, target |-> targetInstance, args |-> enhancementArgs]
       IN [instance |-> enhanceInstance(Cls, targetInstance, enhancementInstance),
           ctors |-> <<[cls |-> 0, target |-> NoInstance, args |-> targetArgs],
                       [cls |-> Cls.Enhancement, target |-> targetInstance,
                        args |-> enhancementArgs]>>]

\* `new Cls(...args)`: the instance, and the constructors that ran, in order.
\* A proxied class runs its construct trap (261-269).
RECURSIVE construct(_, _)
construct(Cls, args) ==
  IF Cls.raw
  THEN [instance |-> [raw |-> TRUE, cls |-> Cls.id, args |-> args],
        ctors |-> <<[cls |-> Cls.id, target |-> NoInstance, args |-> args]>>]
  ELSE LET t == construct(Cls.Target, getForTarget(Cls.injectData, args))
           targetInstance == t.instance
           enhancementArgs == getForEnhancement(Cls.injectData, args)
           enhancementInstance ==
             [cls |-> Cls.Enhancement, target |-> targetInstance, args |-> enhancementArgs]
       IN [instance |-> enhanceInstance(Cls, targetInstance, enhancementInstance),
           ctors |-> Append(t.ctors,
                       [cls |-> Cls.Enhancement, target |-> targetInstance,
                        args |-> enhancementArgs])]

\* ------------------------------------------ static and own properties
\* No reflective operation has answered yet.
NoOut == [op |-> "none"]

\* The classes declare no static property besides `inject`, their
\* constructors create no own property, and nothing has been read.
NothingReflected ==
  /\ statics = [c \in 0..n |-> FALSE]
  /\ own = [c \in 0..n |-> <<>>]
  /\ out = NoOut

\* ------------------------------------------- composing and constructing
\* The classes are declared; nothing is composed yet.
InitType ==
  /\ n \in 1..MaxEnh
  /\ inject \in [0..n -> IF n = 1 THEN InjectDecls ELSE ChainDecls]
  /\ enhM = [k \in 1..n |-> "none"]
  /\ baseM = "none"
  /\ hook = "none"
  /\ how = "none"
  /\ Sut = NoClass
  /\ sut = NoInstance
  /\ resolve = <<>>
  /\ ctorLog = <<>>
  /\ calls = <<>>
  /\ log = <<>>
  /\ NothingReflected

\* Sut = enhance(E_1, ..., E_n)(Target)
EnhanceAll ==
  /\ Sut = NoClass
  /\ Sut' = enhance(EnhList(n), RawClass(0), inject)
  /\ how' = "variadic"
  /\ UNCHANGED <<n, inject, enhM, baseM, hook, sut, resolve, ctorLog, calls, log, statics, own, out>>

\* Sut = enhance(E_n)(... enhance(E_1)(Target))
EnhanceNested ==
  /\ Sut = NoClass
  /\ Sut' = nested(n, inject)
  /\ how' = "nested"
  /\ UNCHANGED <<n, inject, enhM, baseM, hook, sut, resolve, ctorLog, calls, log, statics, own, out>>

\* The container reads Sut.inject, resolves each token and calls
\* new Sut(...values).
ResolveAll(list, r) == [i \in 1..Len(list) |-> r[list[i]]]

Construct(r) ==
  /\ Sut # NoClass
  /\ sut = NoInstance
  /\ LET made == construct(Sut, ResolveAll(StaticInject(Sut, inject).list, r)) IN
       /\ sut' = made.instance
       /\ ctorLog' = made.ctors
  /\ resolve' = r
  /\ UNCHANGED <<n, inject, enhM, baseM, hook, how, Sut, calls, log, statics, own, out>>

NextType ==
  \/ EnhanceAll
  \/ EnhanceNested
  \/ \E r \in Resolutions(n) : Construct(r)

SpecType == InitType /\ [][NextType]_vars

\* ------------------------------------------------ dependency-list claims
\* The proxied classes of a composed class, outermost first.
RECURSIVE LayersOf(_)
LayersOf(Cls) == IF Cls.raw THEN <<>> ELSE <<Cls>> \o LayersOf(Cls.Target)

\* What the tokens of a composed class should be, written from the two
\* declared lists alone.
BaseTokens(Cls) == DefaultList(StaticInject(Cls.Target, inject))
EnhTokens(Cls) == DefaultList(inject[Cls.Enhancement])
NotInBase(Cls, t) == t \notin Range(BaseTokens(Cls))
ExpectedTokens(Cls) ==
  BaseTokens(Cls) \o SelectSeq(EnhTokens(Cls), LAMBDA t : NotInBase(Cls, t))

\* C7: the combined list of a composed class is the base list followed by
\* the enhancement tokens that the base list lacks, in the enhancement's
\* order; its length is len(base) plus the number of such tokens, and no
\* token occurs twice in it.
C7_CombinedList ==
  \A i \in 1..Len(LayersOf(Sut)) :
    LET Cls == LayersOf(Sut)[i]
        combined == StaticInject(Cls, inject).list
    IN /\ combined = ExpectedTokens(Cls)
       /\ Len(combined) =
            Len(BaseTokens(Cls)) + Cardinality(Range(EnhTokens(Cls)) \ Range(BaseTokens(Cls)))
       /\ NoRepeat(combined)

\* A class was composed from a base with two tokens and an enhancement
\* that shares one of them and adds one of its own.
C7_Witness ==
  /\ Sut # NoClass
  /\ n = 1
  /\ Len(BaseTokens(Sut)) = 2
  /\ Len(EnhTokens(Sut)) = 2
  /\ Cardinality(Range(EnhTokens(Sut)) \cap Range(BaseTokens(Sut))) = 1
  /\ Len(StaticInject(Sut, inject).list) = 3

\* C8 (as stated by the specification): constructing the composed class with the values of its combined
\* list builds the base exactly as constructing Base directly with the
\* values of Base's own tokens would, and calls the Enhancement's
\* constructor with the base instance followed by the values of the
\* Enhancement's own tokens, in declared order.
C8_ConstructorArguments ==
  sut # NoInstance =>
    LET direct == construct(Sut.Target, ResolveAll(BaseTokens(Sut), resolve))
        last == ctorLog[Len(ctorLog)]
    IN /\ sut.target = direct.instance
       /\ SubSeq(ctorLog, 1, Len(ctorLog) - 1) = direct.ctors
       /\ Sut.Target.raw => ctorLog[1].args = ResolveAll(DefaultList(inject[0]), resolve)
       /\ last.cls = Sut.Enhancement
       /\ last.target = sut.target
       /\ last.args = ResolveAll(EnhTokens(Sut), resolve)

\* ------------------------------------------------ method dispatch: values
\* Property names are sequences of characters.  One method name is called
\* on the composed instance.
name == <<"a", "t", "t", "a", "c", "h", "e", "d">>

\* String.prototype.toUpperCase on one character of a method name.
toUpperCase(ch) ==
  LET lower == <<"a", "b", "c", "d", "e", "f", "g", "h", "i", "j", "k", "l", "m",
                 "n", "o", "p", "q", "r", "s", "t", "u", "v", "w", "x", "y", "z">>
      upper == <<"A", "B", "C", "D", "E", "F", "G", "H", "I", "J", "K", "L", "M",
                 "N", "O", "P", "Q", "R", "S", "T", "U", "V", "W", "X", "Y", "Z">>
  IN IF \E i \in 1..Len(lower) : lower[i] = ch
     THEN upper[CHOOSE i \in 1..Len(lower) : lower[i] = ch]
     ELSE ch

\* name.replace(/^[a-z]/, (match) => match.toUpperCase())   (128)
normalizedName(nm) ==
  IF Len(nm) = 0 THEN nm ELSE <<toUpperCase(nm[1])>> \o SubSeq(nm, 2, Len(nm))

\* `enhanced${normalizedName}Return`   (129)
lcMethodNamePlain(nm) ==
  <<"e", "n", "h", "a", "n", "c", "e", "d">> \o nm \o <<"R", "e", "t", "u", "r", "n">>

lcMethodName(nm) ==
  <<"e", "n", "h", "a", "n", "c", "e", "d">> \o normalizedName(nm)
    \o <<"R", "e", "t", "u", "r", "n">>

\* The name under which the Target class of the model declares its hook.
HookName == <<"e", "n", "h", "a", "n", "c", "e", "d", "A", "t", "t", "a", "c", "h", "e", "d",
              "R", "e", "t", "u", "r", "n">>

\* What the user methods do.
EnhKinds == {"none", "sync", "async", "throw"}
BaseKinds == {"none", "sync", "async", "native"}
HookKinds == {"none", "ok", "throws"}

\* Property values: undefined, or a function.  A user function names its
\* owner (0: the Target, k: enhancement k); a composed function is the
\* closure composeMethod returns.
UndefinedProp == [fn |-> "undefined"]
UserFn(owner, prop, native) == [fn |-> "user", owner |-> owner, prop |-> prop, native |-> native]
IsFn(v) == v.fn # "undefined"

\* isNativeFn (64): a closure of composeMethod is an arrow function with a
\* readable body; of the user functions only the builtin ones are native.
isNativeFnNever(v) == FALSE

isNativeFn(v) == v.fn = "user" /\ v.native

\* instance[nm] on an instance of the Target class, given its own state.
\* The Target class also declares refresh(...args) { return this.attached(...args) },
\* a method no enhancement has.
refresh == <<"r", "e", "f", "r", "e", "s", "h">>

TargetProp(nm, bm, hk) ==
  IF nm = name /\ bm # "none" THEN UserFn(0, "method", bm = "native")
  ELSE IF nm = HookName /\ hk # "none" THEN UserFn(0, "hook", FALSE)
  ELSE IF nm = refresh THEN UserFn(0, "refresh", FALSE)
  ELSE UndefinedProp

\* enhancement[nm] on an instance of enhancement class k.
EnhProp(k, nm, em) ==
  IF nm = name /\ em[k] # "none" THEN UserFn(k, "method", FALSE) ELSE UndefinedProp

\* composeMethod (125): the closure over (target, enhancement, name, callTarget).
composeMethodNever(target, enhancement, nm, callTarget) ==
  [fn |-> "composed", target |-> target, enhancement |-> enhancement, nm |-> nm,
   callTarget |-> FALSE]

composeMethodAlways(target, enhancement, nm, callTarget) ==
  [fn |-> "composed", target |-> target, enhancement |-> enhancement, nm |-> nm,
   callTarget |-> TRUE]

composeMethod(target, enhancement, nm, callTarget) ==
  [fn |-> "composed", target |-> target, enhancement |-> enhancement, nm |-> nm,
   callTarget |-> callTarget]

\* The get trap of enhanceInstance (178-197) for a method or hook name;
\* on the raw Target instance, a plain property read.
\* The name every instance answers with the class that constructed it.
constructor == <<"c", "o", "n", "s", "t", "r", "u", "c", "t", "o", "r">>

\* A class as a property value.
ClassValue(Cls) == [fn |-> "class", cls |-> Cls]

\* result = ProxyClass   (180-181)
constructorOfTarget(inst) == ClassValue(inst.ProxyClass.Target)

constructorOf(inst) == ClassValue(inst.ProxyClass)

RECURSIVE get(_, _, _, _, _)
get(inst, nm, bm, hk, em) ==
  IF inst.raw THEN (IF nm = constructor THEN ClassValue(RawClass(inst.cls))
                    ELSE TargetProp(nm, bm, hk))
  ELSE IF nm = constructor THEN constructorOf(inst)
  ELSE LET targetValue == get(inst.target, nm, bm, hk, em)
           targetIsFn == IsFn(targetValue)
           enhancementValue == EnhProp(inst.enhancement.cls, nm, em)
           enhancementIsFn == IsFn(enhancementValue)
       IN IF targetIsFn /\ isNativeFn(targetValue) THEN targetValue
          ELSE IF enhancementIsFn
               THEN composeMethod(inst.target, inst.enhancement, nm, targetIsFn)
               ELSE targetValue

\* The has trap (207): name in targetCls || name in enhancement.  `in`
\* sees inherited properties: every instance inherits `constructor`.
RECURSIVE has(_, _, _, _, _)
has(inst, nm, bm, hk, em) ==
  IF inst.raw THEN nm = constructor \/ IsFn(TargetProp(nm, bm, hk))
  ELSE \/ has(inst.target, nm, bm, hk, em)
       \/ nm = constructor
       \/ IsFn(EnhProp(inst.enhancement.cls, nm, em))

\* Number of proxies around an instance (0 for the raw Target instance).
RECURSIVE Depth(_)
Depth(inst) == IF inst.raw THEN 0 ELSE 1 + Depth(inst.target)

\* Values the user methods return, and failures they raise.
UndefinedValue == [what |-> "undefined", by |-> -1, args |-> <<>>]
Returned(k, args) == [what |-> "value", by |-> k, args |-> args]
Thrown(k, args) == [what |-> "error", by |-> k, args |-> args]
TypeError == [what |-> "TypeError", by |-> -1, args |-> <<>>]
NativeResult == [what |-> "native", by |-> 0, args |-> <<>>]
PromiseOf(k, args) == [what |-> "promise", by |-> k, args |-> args]

\* What enhancement k's method hands back when it does not throw.
EnhancedValue(k, args, em) ==
  IF em[k] = "async" THEN PromiseOf(k, args) ELSE Returned(k, args)

\* enhancedValue && typeof enhancedValue.then === 'function'   (132)
isPromiseNever(v) == FALSE

isPromise(v) == v.what = "promise"

\* ------------------------------------------------ method dispatch: state
\* A call of sut[name](...args) that has not been made yet.
NewCall ==
  [st |-> "new", pc |-> "-", args |-> <<>>, passed |-> <<>>, recv |-> NoInstance,
   fn |-> UndefinedProp, hasLCMethod |-> FALSE, enhancedValue |-> UndefinedValue,
   async |-> FALSE, outcome |-> "none", result |-> UndefinedValue]

\* JavaScript runs one synchronous stretch at a time.
Idle == \A c \in DOMAIN calls : calls[c].st # "run"

\* An invocation of user code, as the log records it.
Event(ev, c, layer, args, value, enh, this) ==
  [ev |-> ev, call |-> c, layer |-> layer, args |-> args, value |-> value,
   enh |-> enh, this |-> this]

\* The call ends: a return or a throw on the synchronous path; on the
\* asynchronous path the promise the caller holds settles.
Finished(call, v) ==
  [call EXCEPT !.st = "done", !.pc = "-", !.result = v,
               !.outcome = IF call.async THEN "fulfilled" ELSE "returned"]

FailedSilently(call, e) ==
  [call EXCEPT !.st = "done", !.pc = "-", !.result = e,
               !.outcome = IF call.async THEN "fulfilled" ELSE "returned"]

Failed(call, e) ==
  [call EXCEPT !.st = "done", !.pc = "-", !.result = e,
               !.outcome = IF call.async THEN "rejected" ELSE "thrown"]

\* The instance is built and nothing has been called.
InitCall ==
  /\ n \in 1..MaxEnh
  /\ inject = [c \in 0..n |-> Absent]
  /\ enhM \in [1..n -> EnhKinds]
  /\ baseM \in BaseKinds
  /\ hook \in HookKinds
  /\ how \in {"variadic", "nested"}
  /\ Sut = IF how = "variadic" THEN enhance(EnhList(n), RawClass(0), inject)
                               ELSE nested(n, inject)
  /\ sut = construct(Sut, <<>>).instance
  /\ resolve = <<>>
  /\ ctorLog = construct(Sut, <<>>).ctors
  /\ calls = [c \in 1..1 |-> NewCall]
  /\ log = <<>>
  /\ NothingReflected

frame == <<n, inject, enhM, baseM, hook, how, Sut, sut, resolve, ctorLog, statics, own, out>>

\* The caller evaluates sut[name](...args).
StartCall(c, a) ==
  /\ sut # NoInstance
  /\ Idle
  /\ calls[c].st = "new"
  /\ calls' = [calls EXCEPT ![c] =
       [@ EXCEPT !.st = "run", !.pc = "call", !.args = <<a>>, !.passed = <<a>>, !.recv = sut]]
  /\ UNCHANGED <<frame, log>>

\* recv[name] as the pending invocation reads it.
Callee(c) == get(calls[c].recv, name, baseM, hook, enhM)

\* recv[name] is undefined: calling it is a TypeError.
CallUndefined(c) ==
  /\ calls[c].st = "run" /\ calls[c].pc = "call"
  /\ ~IsFn(Callee(c))
  /\ calls' = [calls EXCEPT ![c] = Failed(@, TypeError)]
  /\ UNCHANGED <<frame, log>>

\* recv[name] is a builtin of the Target (187-188).
CallNative(c) ==
  /\ calls[c].st = "run" /\ calls[c].pc = "call"
  /\ IsFn(Callee(c)) /\ isNativeFn(Callee(c))
  /\ log' = Append(log, Event("native", c, 0, calls[c].passed, UndefinedValue, NoInstance,
                              Depth(calls[c].recv)))
  /\ calls' = [calls EXCEPT ![c] = Finished(@, NativeResult)]
  /\ UNCHANGED frame

\* recv[name] is the Target's own method: it runs, and returns a value or
\* a promise.
CallBaseLatestArgs(c) ==
  /\ calls[c].st = "run" /\ calls[c].pc = "call"
  /\ Callee(c).fn = "user" /\ ~isNativeFn(Callee(c))
  /\ LET latest == CHOOSE d \in DOMAIN calls :
                     /\ calls[d].st # "new"
                     /\ \A e \in DOMAIN calls : calls[e].st # "new" => e <= d
     IN /\ log' = Append(log, Event("base", c, 0, calls[latest].passed, UndefinedValue,
                                    NoInstance, Depth(calls[c].recv)))
        /\ calls' = [calls EXCEPT ![c] =
             IF baseM = "async"
             THEN [@ EXCEPT !.st = "awaitBase", !.pc = "-", !.async = TRUE,
                            !.outcome = "pending"]
             ELSE Finished(@, Returned(0, calls[latest].passed))]
  /\ UNCHANGED frame

CallBase(c) ==
  /\ calls[c].st = "run" /\ calls[c].pc = "call"
  /\ Callee(c).fn = "user" /\ ~isNativeFn(Callee(c))
  /\ log' = Append(log, Event("base", c, 0, calls[c].passed, UndefinedValue, NoInstance,
                              Depth(calls[c].recv)))
  /\ calls' = [calls EXCEPT ![c] =
       IF baseM = "async"
       THEN [@ EXCEPT !.st = "awaitBase", !.pc = "-", !.async = TRUE, !.outcome = "pending"]
       ELSE Finished(@, Returned(0, @.passed))]
  /\ UNCHANGED frame

\* typeof target[lcMethodName] === 'function'   (130)
hasLCMethodNever(f) == FALSE

hasLCMethod(f) == IsFn(get(f.target, lcMethodName(f.nm), baseM, hook, enhM))

\* recv[name] is a composed method (125-132): the enhancement's method is
\* invoked with the arguments; unless it throws, the hook is looked for,
\* and a promise makes the rest wait for its settlement.
CallComposed(c) ==
  /\ calls[c].st = "run" /\ calls[c].pc = "call"
  /\ Callee(c).fn = "composed"
  /\ LET f == Callee(c)
         k == f.enhancement.cls
     IN /\ log' = Append(log, Event("enh", c, k, calls[c].passed, UndefinedValue,
                                    NoInstance, k))
        /\ calls' = [calls EXCEPT ![c] =
             CASE enhM[k] = "throw" -> Failed(@, Thrown(k, @.passed))
               [] isPromise(EnhancedValue(k, calls[c].passed, enhM)) ->
                    [@ EXCEPT !.st = "awaitEnh", !.pc = "-", !.fn = f,
                              !.hasLCMethod = hasLCMethod(f), !.async = TRUE,
                              !.enhancedValue = EnhancedValue(k, calls[c].passed, enhM),
                              !.outcome = "pending"]
               [] OTHER ->
                    [@ EXCEPT !.pc = "hook", !.fn = f, !.hasLCMethod = hasLCMethod(f),
                              !.enhancedValue = EnhancedValue(k, calls[c].passed, enhM)]]
  /\ UNCHANGED frame

\* The enhancement's promise settles.  Fulfilled, the `then` callback is
\* queued; rejected, the promise `then` returned rejects and the callback
\* never runs (134).
SettleEnhAnyway(c, ok) ==
  /\ Idle
  /\ calls[c].st = "awaitEnh"
  /\ LET k == calls[c].fn.enhancement.cls
         v == IF ok THEN Returned(k, calls[c].passed) ELSE Thrown(k, calls[c].passed)
     IN /\ log' = Append(log, Event("settle", c, k, <<>>, v, NoInstance, k))
        /\ calls' = [calls EXCEPT ![c] = [@ EXCEPT !.st = "queued", !.enhancedValue = v]]
  /\ UNCHANGED frame

SettleEnh(c, ok) ==
  /\ Idle
  /\ calls[c].st = "awaitEnh"
  /\ LET k == calls[c].fn.enhancement.cls
         v == IF ok THEN Returned(k, calls[c].passed) ELSE Thrown(k, calls[c].passed)
     IN /\ log' = Append(log, Event("settle", c, k, <<>>, v, NoInstance, k))
        /\ calls' = [calls EXCEPT ![c] =
             IF ok THEN [@ EXCEPT !.st = "queued", !.enhancedValue = v]
                   ELSE Failed(@, v)]
  /\ UNCHANGED frame

\* The queued `then` callback starts (134).
ResumeLookingAgain(c) ==
  /\ Idle
  /\ calls[c].st = "queued"
  /\ calls' = [calls EXCEPT ![c] =
       [@ EXCEPT !.st = "run", !.pc = "hook", !.hasLCMethod = hasLCMethod(calls[c].fn)]]
  /\ UNCHANGED <<frame, log>>

ResumeEarly(c) ==
  /\ Idle
  /\ calls[c].st \in {"awaitEnh", "queued"}
  /\ calls' = [calls EXCEPT ![c] = [@ EXCEPT !.st = "run", !.pc = "hook"]]
  /\ UNCHANGED <<frame, log>>

Resume(c) ==
  /\ Idle
  /\ calls[c].st = "queued"
  /\ calls' = [calls EXCEPT ![c] = [@ EXCEPT !.st = "run", !.pc = "hook"]]
  /\ UNCHANGED <<frame, log>>

\* The arguments of target[lcMethodName].bind(target)(value, enhancement).
HookArgsTarget(value, enhancement, target) == [value |-> value, enhancement |-> target]

HookArgs(value, enhancement, target) == [value |-> value, enhancement |-> enhancement]

\* if (hasLCMethod) target[lcMethodName].bind(target)(value, enhancement)
\* (135-137, 142-144).  A hook that throws ends the call.
InvokeHook(c) ==
  /\ calls[c].st = "run" /\ calls[c].pc = "hook"
  /\ calls[c].hasLCMethod
  /\ LET f == calls[c].fn
         h == get(f.target, lcMethodName(f.nm), baseM, hook, enhM)
         a == HookArgs(calls[c].enhancedValue, f.enhancement, f.target)
     IN IF ~IsFn(h)
        THEN /\ calls' = [calls EXCEPT ![c] = Failed(@, TypeError)]
             /\ UNCHANGED log
        ELSE /\ log' = Append(log, Event("hook", c, f.enhancement.cls, <<>>, a.value,
                                         a.enhancement, Depth(f.target)))
             /\ calls' = [calls EXCEPT ![c] =
                  IF hook = "throws" THEN Failed(@, Thrown(0, <<>>))
                  ELSE [@ EXCEPT !.pc = "target"]]
  /\ UNCHANGED frame

\* hasLCMethod is false: the hook is passed over.
SkipHook(c) ==
  /\ calls[c].st = "run" /\ calls[c].pc = "hook"
  /\ ~calls[c].hasLCMethod
  /\ calls' = [calls EXCEPT ![c] = [@ EXCEPT !.pc = "target"]]
  /\ UNCHANGED <<frame, log>>

\* The arguments of target[name](...args).
TargetArgsNone(args, value) == <<>>

TargetArgs(args, value) == args

\* callTarget holds: target[name](...args) is evaluated next (139, 146),
\* and its result is the result of this composed method.
CallTarget(c) ==
  /\ calls[c].st = "run" /\ calls[c].pc = "target"
  /\ calls[c].fn.callTarget
  /\ calls' = [calls EXCEPT ![c] =
       [@ EXCEPT !.pc = "call", !.recv = calls[c].fn.target,
                 !.passed = TargetArgs(calls[c].passed, calls[c].enhancedValue)]]
  /\ UNCHANGED <<frame, log>>

\* callTarget is false: the enhancement's value is the result (139, 146).
ReturnEnhanced(c) ==
  /\ calls[c].st = "run" /\ calls[c].pc = "target"
  /\ ~calls[c].fn.callTarget
  /\ calls' = [calls EXCEPT ![c] = Finished(@, @.enhancedValue)]
  /\ UNCHANGED <<frame, log>>

\* The promise the Target's method returned is fulfilled.
SettleBase(c) ==
  /\ Idle
  /\ calls[c].st = "awaitBase"
  /\ log' = Append(log, Event("settleBase", c, 0, <<>>, Returned(0, calls[c].passed),
                              NoInstance, 0))
  /\ calls' = [calls EXCEPT ![c] = Finished(@, Returned(0, @.passed))]
  /\ UNCHANGED frame

NextCall ==
  \/ \E c \in DOMAIN calls, a \in 1..MaxArg : StartCall(c, a)
  \/ \E c \in DOMAIN calls : CallUndefined(c)
  \/ \E c \in DOMAIN calls : CallNative(c)
  \/ \E c \in DOMAIN calls : CallBase(c)
  \/ \E c \in DOMAIN calls : CallComposed(c)
  \/ \E c \in DOMAIN calls, ok \in BOOLEAN : SettleEnh(c, ok)
  \/ \E c \in DOMAIN calls : Resume(c)
  \/ \E c \in DOMAIN calls : InvokeHook(c)
  \/ \E c \in DOMAIN calls : SkipHook(c)
  \/ \E c \in DOMAIN calls : CallTarget(c)
  \/ \E c \in DOMAIN calls : ReturnEnhanced(c)
  \/ \E c \in DOMAIN calls : SettleBase(c)

SpecCall == InitCall /\ [][NextCall]_vars

\* --------------------------------------------------------- dispatch claims
Done(c) == calls[c].st = "done"

\* The log positions that belong to call c, and those of one kind of event.
Indices(c) == {i \in 1..Len(log) : log[i].call = c}
IndicesOf(c, ev) == {i \in Indices(c) : log[i].ev = ev}
IndicesAt(c, ev, k) == {i \in IndicesOf(c, ev) : log[i].layer = k}

\* The methods of the chain that call c invoked, in order: enhancement
\* methods and the Target's method.
IsInvocation(e) == e.ev \in {"enh", "base"}
Invocations(c) == SelectSeq(log, LAMBDA e : e.call = c /\ IsInvocation(e))

\* Nothing failed in call c: no method or hook of the configuration throws
\* and no promise was rejected.
NoFaults(c) ==
  /\ hook # "throws"
  /\ \A k \in 1..n : enhM[k] # "throw"
  /\ \A i \in Indices(c) : log[i].value.what # "error"

\* Every class of the chain defines the method as user code.
AllDefine ==
  /\ baseM \in {"sync", "async"}
  /\ \A k \in 1..n : enhM[k] \in {"sync", "async"}

\* The enhancement instance of the layer built from enhancement class k.
RECURSIVE EnhancementAt(_, _)
EnhancementAt(inst, k) ==
  IF inst.raw THEN NoInstance
  ELSE IF inst.enhancement.cls = k THEN inst.enhancement
  ELSE EnhancementAt(inst.target, k)

\* The enhancement's value is at hand in call c for layer k: its method
\* was invoked and returned, and a promise it returned was fulfilled.
ValueAvailable(c, k) ==
  /\ IndicesAt(c, "enh", k) # {}
  /\ enhM[k] = "sync" \/ \E i \in IndicesAt(c, "settle", k) : log[i].value.what = "value"

\* C1: when the Target and every enhancement define the method, one call
\* invokes enh_n, ..., enh_1 and then the Target, each once and each with
\* the caller's arguments; a method that follows a promise-returning one
\* starts only after that promise has settled.
C1_DispatchOrder ==
  \A c \in DOMAIN calls :
    AllDefine =>
      LET inv == Invocations(c) IN
      /\ Len(inv) <= n + 1
      /\ \A i \in 1..Len(inv) :
           /\ inv[i].layer = n + 1 - i
           /\ inv[i].args = calls[c].args
      /\ (Done(c) /\ NoFaults(c)) => Len(inv) = n + 1
      /\ \A i \in Indices(c) : \A k \in 1..n :
           (IsInvocation(log[i]) /\ log[i].layer < k /\ enhM[k] = "async")
             => \E j \in IndicesAt(c, "settle", k) : j < i

\* A chain of two, the outer enhancement returning a promise and the
\* inner one a plain value, has run to the end.
C1_Witness ==
  /\ n = 2 /\ AllDefine
  /\ enhM[2] = "async" /\ enhM[1] = "sync"
  /\ Done(1) /\ NoFaults(1)
  /\ Len(Invocations(1)) = 3
  /\ calls[1].outcome = "fulfilled"

\* The enhancement methods of the chain all return plain values.
AllSync == \A k \in 1..n : enhM[k] \in {"none", "sync"}

\* C2: with the method on the Target and on an enhancement, and plain
\* values from the enhancements, the composed method hands the caller what
\* the Target's method returned, not the enhancement's value, and the
\* Target's method received the caller's arguments.
C2_BaseResult ==
  \A c \in DOMAIN calls :
    (/\ Done(c) /\ NoFaults(c)
     /\ baseM \in {"sync", "async"}
     /\ AllSync /\ \E k \in 1..n : enhM[k] = "sync")
    => /\ calls[c].result = Returned(0, calls[c].args)
       /\ calls[c].result.by = 0
       /\ baseM = "sync" => calls[c].outcome = "returned"
       /\ Cardinality(IndicesOf(c, "base")) = 1
       /\ \A i \in IndicesOf(c, "base") : log[i].args = calls[c].args
       /\ \E i \in IndicesOf(c, "enh") : \A j \in IndicesOf(c, "base") : i < j

\* A synchronous call on one enhancement and a Target that both define
\* the method has returned.
C2_Witness ==
  /\ n = 1 /\ enhM[1] = "sync" /\ baseM = "sync" /\ hook = "ok"
  /\ Done(1)
  /\ calls[1].outcome = "returned"
  /\ calls[1].result = Returned(0, calls[1].args)

\* C3: when an enhancement's method returns a promise, the Target's method
\* is not invoked before that promise is fulfilled, the promise the caller
\* holds stays pending until the Target's method has produced its result,
\* and it is fulfilled with that result.
C3_AsyncBase ==
  \A c \in DOMAIN calls :
    (baseM \in {"sync", "async"} /\ \E k \in 1..n : enhM[k] = "async") =>
      /\ \A k \in 1..n : \A i \in IndicesOf(c, "base") :
           (enhM[k] = "async" /\ IndicesAt(c, "enh", k) # {})
             => \E j \in IndicesAt(c, "settle", k) : j < i /\ log[j].value.what = "value"
      /\ (\E k \in 1..n : enhM[k] = "async" /\ IndicesAt(c, "enh", k) # {})
           => calls[c].async
      /\ (calls[c].async /\ calls[c].outcome = "fulfilled") =>
           /\ IndicesOf(c, "base") # {}
           /\ baseM = "async" => IndicesOf(c, "settleBase") # {}
           /\ calls[c].result = Returned(0, calls[c].args)
      /\ (calls[c].async /\ Done(c) /\ NoFaults(c)) => calls[c].outcome = "fulfilled"
      /\ (calls[c].async /\ ~Done(c)) => calls[c].outcome = "pending"

\* An asynchronous call on one enhancement has been fulfilled with the
\* result of the Target's method.
C3_Witness ==
  /\ n = 1 /\ enhM[1] = "async" /\ baseM = "sync"
  /\ Done(1)
  /\ calls[1].outcome = "fulfilled"
  /\ calls[1].result = Returned(0, calls[1].args)
  /\ IndicesAt(1, "settle", 1) # {}

\* The composed method of layer k has gone past its hook step in call c:
\* the call is over, or a method further in has been invoked.
PastHook(c, k) ==
  Done(c) \/ \E i \in Indices(c) : IsInvocation(log[i]) /\ log[i].layer < k

\* C4: when the Target instance has the hook and enhancement k defines the
\* method, a call that runs layer k's composed method invokes the hook
\* once for that layer, with the value the enhancement produced and the
\* enhancement instance, whether or not the Target defines the method and
\* whether the value came directly or through a promise.
C4_HookOnce ==
  \A c \in DOMAIN calls : \A k \in 1..n :
    (hook # "none" /\ enhM[k] # "none") =>
      /\ Cardinality(IndicesAt(c, "hook", k)) <= 1
      /\ \A i \in IndicesAt(c, "hook", k) :
           /\ log[i].value = Returned(k, calls[c].args)
           /\ log[i].enh = EnhancementAt(sut, k)
           /\ log[i].enh.cls = k
      /\ (ValueAvailable(c, k) /\ PastHook(c, k)) => Cardinality(IndicesAt(c, "hook", k)) = 1

\* The Target has the hook but not the method; the enhancement's promise
\* was fulfilled and the hook has run.
C4_Witness ==
  /\ n = 1 /\ baseM = "none" /\ hook = "ok" /\ enhM[1] = "async"
  /\ Done(1)
  /\ Cardinality(IndicesAt(1, "hook", 1)) = 1
  /\ calls[1].outcome = "fulfilled"

\* The place of an event in the order one call must follow: for each
\* layer from the outermost in, the enhancement's method, the settlement
\* of its promise, the hook; then the Target's method.
Rank(e) ==
  CASE e.ev = "enh" -> 3 * (n - e.layer)
    [] e.ev = "settle" -> 3 * (n - e.layer) + 1
    [] e.ev = "hook" -> 3 * (n - e.layer) + 2
    [] e.ev = "settleBase" -> 3 * n + 1
    [] OTHER -> 3 * n

\* C5: in one composed call the enhancement's method comes first, then
\* the settlement of its promise if it returned one, then the hook if the
\* Target has it, then the Target's side; the hook never runs before the
\* enhancement's value is at hand nor after the Target's side has started.
C5_CallOrder ==
  \A c \in DOMAIN calls :
    /\ \A i, j \in Indices(c) : i < j => Rank(log[i]) < Rank(log[j])
    /\ \A k \in 1..n : \A i \in IndicesAt(c, "hook", k) :
         /\ \E j \in IndicesAt(c, "enh", k) : j < i
         /\ log[i].value.what = "value"
         /\ enhM[k] = "async" =>
              \E j \in IndicesAt(c, "settle", k) : j < i /\ log[j].value.what = "value"
    /\ \A k \in 1..n : \A i \in Indices(c) :
         (hook # "none" /\ IsInvocation(log[i]) /\ log[i].layer < k
            /\ IndicesAt(c, "enh", k) # {})
           => \E h \in IndicesAt(c, "hook", k) : h < i

\* An asynchronous call went through all four steps.
C5_Witness ==
  /\ n = 1 /\ enhM[1] = "async" /\ baseM = "sync" /\ hook = "ok"
  /\ Done(1)
  /\ Len(log) = 4
  /\ log[1].ev = "enh" /\ log[2].ev = "settle" /\ log[3].ev = "hook" /\ log[4].ev = "base"

\* The innermost enhancement that defines the method.
Innermost == CHOOSE k \in 1..n : enhM[k] # "none" /\ \A j \in 1..(k - 1) : enhM[j] = "none"

\* C6 (as stated by the specification): a hook that throws does not keep
\* the caller from the primary result: the Target's method still runs
\* when the Target defines it and the caller receives its result, or the
\* enhancement's value when the Target lacks the method.
C6_HookFailureKeepsResult ==
  \A c \in DOMAIN calls :
    (/\ Done(c) /\ hook = "throws" /\ IndicesOf(c, "hook") # {}
     /\ \A k \in 1..n : enhM[k] # "throw"
     /\ \A i \in Indices(c) : log[i].value.what # "error")
    => /\ baseM \in {"sync", "async"} =>
            /\ IndicesOf(c, "base") # {}
            /\ calls[c].result = Returned(0, calls[c].args)
       /\ baseM = "none" => calls[c].result = Returned(Innermost, calls[c].args)

\* C10: a method that only enhancements define can be called on the
\* composed instance: the Target is not invoked, the caller receives the
\* enhancement's value, directly or as the value the returned promise is
\* fulfilled with, and the membership test for the name is true.
C10_EnhancementOnly ==
  (baseM = "none" /\ \E k \in 1..n : enhM[k] # "none") =>
    /\ has(sut, name, baseM, hook, enhM)
    /\ \A c \in DOMAIN calls :
         /\ IndicesOf(c, "base") = {}
         /\ (Done(c) /\ NoFaults(c)) =>
              /\ calls[c].result = Returned(Innermost, calls[c].args)
              /\ calls[c].outcome =
                   IF \E k \in 1..n : enhM[k] = "async" THEN "fulfilled" ELSE "returned"

\* Calls of a method the Target lacks have ended, one directly and one
\* through a promise.
C10_Witness ==
  /\ n = 1 /\ baseM = "none" /\ enhM[1] = "async"
  /\ Done(1)
  /\ calls[1].outcome = "fulfilled"
  /\ calls[1].result = Returned(1, calls[1].args)
  /\ has(sut, name, baseM, hook, enhM)

\* ------------------------------------- one application or one per class
\* Classes with `inject` declarations, every one defining the method, are
\* composed in one of the two ways; the instance is built by the container
\* and the method is called on it.  Chains of up to two enhancements take
\* every declaration of the chain bounds, longer ones lists of one token.
EquivDecls(k) == IF k <= 2 THEN ChainDecls ELSE DeclsOver(ChainTokens, 1)

InitEquiv ==
  /\ n \in 1..MaxEnh
  /\ inject \in [0..n -> EquivDecls(n)]
  /\ enhM = [k \in 1..n |-> "sync"]
  /\ baseM = "sync"
  /\ hook = "none"
  /\ how \in {"variadic", "nested"}
  /\ Sut = IF how = "variadic" THEN enhance(EnhList(n), RawClass(0), inject)
                               ELSE nested(n, inject)
  /\ sut = construct(Sut, ResolveAll(StaticInject(Sut, inject).list, OwnValue)).instance
  /\ resolve = OwnValue
  /\ ctorLog = construct(Sut, ResolveAll(StaticInject(Sut, inject).list, OwnValue)).ctors
  /\ calls = [c \in 1..1 |-> NewCall]
  /\ log = <<>>
  /\ NothingReflected

NextEquiv ==
  \/ \E c \in DOMAIN calls : StartCall(c, 1)
  \/ \E c \in DOMAIN calls : CallComposed(c)
  \/ \E c \in DOMAIN calls : SkipHook(c)
  \/ \E c \in DOMAIN calls : CallTarget(c)
  \/ \E c \in DOMAIN calls : CallBase(c)

SpecEquiv == InitEquiv /\ [][NextEquiv]_vars

\* The class each way of composing gives for the declared classes.
Variadic == enhance(EnhList(n), RawClass(0), inject)
Nested == nested(n, inject)

\* C9: composing with one application of all the enhancements and
\* composing by one application per enhancement give the same class: the
\* same combined dependency list, the same instance from the same
\* constructor arguments, and for a method every class defines the
\* dispatch last enhancement first, down to the Target.
C9_VariadicIsNested ==
  /\ Sut \in {Variadic, Nested}
  /\ StaticInject(Variadic, inject) = StaticInject(Nested, inject)
  /\ StaticInject(Sut, inject) = StaticInject(Variadic, inject)
  /\ Variadic = Nested
  /\ LET args == ResolveAll(StaticInject(Sut, inject).list, resolve) IN
       /\ construct(Variadic, args) = construct(Nested, args)
       /\ sut = construct(Nested, args).instance
       /\ sut = construct(Variadic, args).instance
  /\ \A c \in DOMAIN calls :
       LET inv == Invocations(c) IN
       /\ \A i \in 1..Len(inv) : inv[i].layer = n + 1 - i
       /\ Done(c) => Len(inv) = n + 1

\* Two enhancements that share a token, composed one application at a
\* time; the call has gone through EnhB, EnhA and the Target.
C9_Witness ==
  /\ n = 2 /\ how = "nested"
  /\ inject[1].def /\ inject[2].def /\ inject[0].def
  /\ Range(inject[1].list) \cap Range(inject[2].list) # {}
  /\ inject[1].list # inject[2].list
  /\ Len(StaticInject(Sut, inject).list) = 2
  /\ Done(1)
  /\ [i \in 1..3 |-> Invocations(1)[i].layer] = <<2, 1, 0>>

\* --------------------------------------------- failing enhancement methods
\* Nothing of layer k's composed method ran after the enhancement's method:
\* not the hook of that layer, and no method further in.
NothingAfter(c, k) ==
  /\ IndicesAt(c, "hook", k) = {}
  /\ \A i \in Indices(c) : log[i].ev \in {"enh", "base", "native", "hook", "settle"}
                             => log[i].layer >= k
  /\ IndicesOf(c, "base") = {} /\ IndicesOf(c, "settleBase") = {}

\* C19: when enhancement k's method throws, the call is over with that
\* failure (thrown to the caller, or as the rejection of the promise an
\* outer asynchronous layer already returned), and neither the hook of
\* that layer nor the Target's method is invoked.
C19_EnhancementThrows ==
  \A c \in DOMAIN calls : \A k \in 1..n :
    (enhM[k] = "throw" /\ IndicesAt(c, "enh", k) # {}) =>
      /\ Done(c)
      /\ calls[c].result = Thrown(k, calls[c].args)
      /\ calls[c].result.what = "error"
      /\ calls[c].outcome = IF calls[c].async THEN "rejected" ELSE "thrown"
      /\ NothingAfter(c, k)

\* The Target has the method and the hook; the enhancement's method threw.
C19_Witness ==
  /\ n = 1 /\ enhM[1] = "throw" /\ baseM = "sync" /\ hook = "ok"
  /\ Done(1)
  /\ calls[1].outcome = "thrown"
  /\ Len(log) = 1 /\ log[1].ev = "enh"

\* C20: when the promise enhancement k's method returned is rejected, the
\* promise the caller holds is rejected with the same failure, and neither
\* the hook of that layer nor the Target's method is invoked.
C20_EnhancementRejects ==
  \A c \in DOMAIN calls : \A k \in 1..n : \A i \in IndicesAt(c, "settle", k) :
    log[i].value.what = "error" =>
      /\ Done(c)
      /\ calls[c].outcome = "rejected"
      /\ calls[c].result = log[i].value
      /\ calls[c].result = Thrown(k, calls[c].args)
      /\ NothingAfter(c, k)
      /\ i = Len(log)

\* The Target has the method and the hook; the enhancement's promise was
\* rejected.
C20_Witness ==
  /\ n = 1 /\ enhM[1] = "async" /\ baseM = "sync" /\ hook = "ok"
  /\ Done(1)
  /\ calls[1].outcome = "rejected"
  /\ Len(log) = 2 /\ log[2].ev = "settle" /\ log[2].value.what = "error"

\* ------------------------------------------------- builtin target methods
\* C12: when the Target's value for the name is a builtin function, the
\* composed instance answers the name with that very function, whatever
\* the enhancements define, and calling it runs the builtin only: no
\* enhancement method, no hook.
C12_NativeUntouched ==
  baseM = "native" =>
    /\ get(sut, name, baseM, hook, enhM) = TargetProp(name, baseM, hook)
    /\ get(sut, name, baseM, hook, enhM) = UserFn(0, "method", TRUE)
    /\ \A c \in DOMAIN calls :
         /\ IndicesOf(c, "enh") = {} /\ IndicesOf(c, "hook") = {}
         /\ IndicesOf(c, "settle") = {}
         /\ Done(c) => /\ calls[c].result = NativeResult
                       /\ calls[c].outcome = "returned"
                       /\ Len(log) = 1 /\ log[1].ev = "native"
                       /\ log[1].args = calls[c].args

\* Both enhancements of a chain define the name, the Target instance has
\* the hook, and the builtin has been called.
C12_Witness ==
  /\ n = 2 /\ baseM = "native" /\ hook = "ok"
  /\ enhM[1] = "sync" /\ enhM[2] = "async"
  /\ Done(1)
  /\ calls[1].result = NativeResult

\* ------------------------------------ a Target method no enhancement has
\* The Target instance under the proxies.
RECURSIVE RawTarget(_)
RawTarget(inst) == IF inst.raw THEN inst ELSE RawTarget(inst.target)

\* The Target defines `attached` and `refresh`; enhancements may define
\* `attached`.
InitSelf ==
  /\ n \in 1..MaxEnh
  /\ inject = [c \in 0..n |-> Absent]
  /\ enhM \in [1..n -> {"none", "sync", "async"}]
  /\ baseM = "sync"
  /\ hook \in {"none", "ok"}
  /\ how = "variadic"
  /\ Sut = enhance(EnhList(n), RawClass(0), inject)
  /\ sut = construct(Sut, <<>>).instance
  /\ resolve = <<>>
  /\ ctorLog = construct(Sut, <<>>).ctors
  /\ calls = [c \in 1..1 |-> NewCall]
  /\ log = <<>>
  /\ NothingReflected

\* The caller evaluates receiver.refresh(...args): on the composed
\* instance, or directly on the Target instance under it.
StartRefresh(c, a, direct) ==
  /\ Idle
  /\ calls[c].st = "new"
  /\ calls' = [calls EXCEPT ![c] =
       [@ EXCEPT !.st = "run", !.pc = "refresh", !.args = <<a>>, !.passed = <<a>>,
                 !.recv = IF direct THEN RawTarget(sut) ELSE sut]]
  /\ UNCHANGED <<frame, log>>

\* receiver.refresh is read (183-194: the enhancement has no such method,
\* so the Target's function is the result) and called with the receiver
\* as `this`; its body calls this.attached(...args).
CallRefresh(c) ==
  /\ calls[c].st = "run" /\ calls[c].pc = "refresh"
  /\ get(calls[c].recv, refresh, baseM, hook, enhM).fn = "user"
  /\ log' = Append(log, Event("refresh", c, 0, calls[c].passed, UndefinedValue, NoInstance,
                              Depth(calls[c].recv)))
  /\ calls' = [calls EXCEPT ![c] = [@ EXCEPT !.pc = "call"]]
  /\ UNCHANGED frame

NextSelf ==
  \/ \E c \in DOMAIN calls, a \in 1..MaxArg, direct \in BOOLEAN : StartRefresh(c, a, direct)
  \/ \E c \in DOMAIN calls : CallRefresh(c)
  \/ \E c \in DOMAIN calls : CallBase(c)
  \/ \E c \in DOMAIN calls : CallComposed(c)
  \/ \E c \in DOMAIN calls, ok \in BOOLEAN : SettleEnh(c, ok)
  \/ \E c \in DOMAIN calls : Resume(c)
  \/ \E c \in DOMAIN calls : InvokeHook(c)
  \/ \E c \in DOMAIN calls : SkipHook(c)
  \/ \E c \in DOMAIN calls : CallTarget(c)

SpecSelf == InitSelf /\ [][NextSelf]_vars

\* The kinds of the events call c logged, in order.
Trace(c) == LET evs == SelectSeq(log, LAMBDA e : e.call = c) IN [i \in 1..Len(evs) |-> evs[i].ev]

\* C11 (as stated by the specification): a Target method the enhancement
\* lacks is read from the composed instance as the Target's own function,
\* and calling it there is the same as calling it on the Target instance:
\* same result, same effects, and no enhancement method and no hook runs,
\* also not through the calls the method makes on its own receiver.
C11_BaseOnlyAsDirect ==
  /\ get(sut, refresh, baseM, hook, enhM) = get(RawTarget(sut), refresh, baseM, hook, enhM)
  /\ \A c \in DOMAIN calls :
       IndicesOf(c, "refresh") # {} =>
         /\ IndicesOf(c, "enh") = {}
         /\ IndicesOf(c, "hook") = {}
         /\ Done(c) => /\ Trace(c) = <<"refresh", "base">>
                       /\ calls[c].result = Returned(0, calls[c].args)
                       /\ calls[c].outcome = "returned"

\* ------------------------------------- static properties of composed classes
\* Values a static property read answers.
UndefinedStatic == [what |-> "undefined"]
ListValue(l) == [what |-> "list", list |-> l]
StaticValue(c) == [what |-> "static", of |-> c]

\* The static property names read in the model.
StaticNames == {"inject", "staticProp"}

\* Cls[prop] on a class the user wrote: its own static property.
OwnStatic(c, prop, inj, st) ==
  IF prop = "inject" THEN (IF inj[c].def THEN ListValue(inj[c].list) ELSE UndefinedStatic)
  ELSE IF prop = "staticProp" /\ st[c] THEN StaticValue(c)
  ELSE UndefinedStatic

\* A property created by assignment or by a class field.
DataDescriptor(v) == [value |-> v, writable |-> TRUE, enumerable |-> TRUE, configurable |-> TRUE]
UndefinedDescriptor == [what |-> "undefined"]

\* Object.getOwnPropertyDescriptor on a class the user wrote.
OwnStaticDescriptor(c, prop, inj, st) ==
  IF OwnStatic(c, prop, inj, st) = UndefinedStatic THEN UndefinedDescriptor
  ELSE DataDescriptor(OwnStatic(c, prop, inj, st))

\* The get trap of proxyClass (281).
classGetOfEnhancement(Cls, prop, inj, st) ==
  IF Cls.raw THEN OwnStatic(Cls.id, prop, inj, st)
  ELSE IF prop = "inject" THEN ListValue(Cls.injectData.list)
  ELSE OwnStatic(Cls.Enhancement, prop, inj, st)

RECURSIVE classGet(_, _, _, _)
classGet(Cls, prop, inj, st) ==
  IF Cls.raw THEN OwnStatic(Cls.id, prop, inj, st)
  ELSE IF prop = "inject" THEN ListValue(Cls.injectData.list)
  ELSE classGet(Cls.Target, prop, inj, st)

\* The descriptor the trap builds for `inject` (293-297); the proxy
\* completes it, and the attribute the literal leaves out is false.
injectDescriptorWritable(list) ==
  [value |-> ListValue(list), writable |-> TRUE, enumerable |-> TRUE, configurable |-> TRUE]

injectDescriptor(list) ==
  [value |-> ListValue(list), writable |-> FALSE, enumerable |-> TRUE, configurable |-> TRUE]

\* The getOwnPropertyDescriptor trap of proxyClass (291-298).
RECURSIVE classGetOwnPropertyDescriptor(_, _, _, _)
classGetOwnPropertyDescriptor(Cls, prop, inj, st) ==
  IF Cls.raw THEN OwnStaticDescriptor(Cls.id, prop, inj, st)
  ELSE IF prop = "inject" THEN injectDescriptor(Cls.injectData.list)
  ELSE classGetOwnPropertyDescriptor(Cls.Target, prop, inj, st)

\* The classes are declared with their static properties and composed.
InitStatic ==
  /\ n \in 1..MaxEnh
  /\ inject \in [0..n -> EquivDecls(n)]
  /\ statics \in [0..n -> BOOLEAN]
  /\ enhM = [k \in 1..n |-> "none"]
  /\ baseM = "none"
  /\ hook = "none"
  /\ how \in {"variadic", "nested"}
  /\ Sut = IF how = "variadic" THEN enhance(EnhList(n), RawClass(0), inject)
                               ELSE nested(n, inject)
  /\ sut = NoInstance
  /\ resolve = <<>>
  /\ ctorLog = <<>>
  /\ calls = <<>>
  /\ log = <<>>
  /\ own = [c \in 0..n |-> <<>>]
  /\ out = NoOut

\* Sut[prop]
ReadStatic(prop) ==
  /\ out' = [op |-> "get", prop |-> prop, value |-> classGet(Sut, prop, inject, statics)]
  /\ UNCHANGED <<n, inject, enhM, baseM, hook, how, Sut, sut, resolve, ctorLog, calls, log,
                 statics, own>>

\* Object.getOwnPropertyDescriptor(Sut, prop)
DescribeStatic(prop) ==
  /\ out' = [op |-> "getOwnPropertyDescriptor", prop |-> prop,
             value |-> classGetOwnPropertyDescriptor(Sut, prop, inject, statics)]
  /\ UNCHANGED <<n, inject, enhM, baseM, hook, how, Sut, sut, resolve, ctorLog, calls, log,
                 statics, own>>

NextStatic ==
  \/ \E prop \in StaticNames : ReadStatic(prop)
  \/ \E prop \in StaticNames : DescribeStatic(prop)

SpecStatic == InitStatic /\ [][NextStatic]_vars

\* The combined list of the chain up to enhancement k, written from the
\* declared lists alone.
RECURSIVE CombinedUpTo(_)
CombinedUpTo(k) ==
  IF k = 0 THEN DefaultList(inject[0])
  ELSE CombinedUpTo(k - 1)
         \o SelectSeq(DefaultList(inject[k]), LAMBDA t : t \notin Range(CombinedUpTo(k - 1)))

\* C13: on a composed class `inject`, read directly or through its
\* descriptor, is the combined list, and the descriptor is configurable,
\* enumerable and not writable; also when the Target declares no list and
\* when the Target is itself a composed class.
C13_InjectProperty ==
  out.op # "none" /\ out.prop = "inject" =>
    /\ out.op = "get" => out.value = ListValue(CombinedUpTo(n))
    /\ out.op = "getOwnPropertyDescriptor" =>
         /\ out.value.value = ListValue(CombinedUpTo(n))
         /\ out.value.configurable /\ out.value.enumerable /\ ~out.value.writable

\* The Target declares no list, it is enhanced twice, and the descriptor
\* of `inject` was looked up on the outer class.
C13_Witness ==
  /\ n = 2 /\ ~inject[0].def
  /\ inject[1].def /\ inject[2].def
  /\ Len(CombinedUpTo(2)) = 2 /\ Len(CombinedUpTo(1)) = 1
  /\ out.op = "getOwnPropertyDescriptor" /\ out.prop = "inject"
  /\ out.value.value.list = CombinedUpTo(2)

\* C14: any other static property of a composed class is the Target's,
\* read directly or through its descriptor; a static property of an
\* enhancement is never answered, also when the Target has none of that
\* name.
C14_StaticsOfTarget ==
  out.op # "none" /\ out.prop # "inject" =>
    /\ out.op = "get" =>
         /\ out.value = OwnStatic(0, out.prop, inject, statics)
         /\ \A k \in 1..n : out.value # StaticValue(k)
    /\ out.op = "getOwnPropertyDescriptor" =>
         /\ out.value = OwnStaticDescriptor(0, out.prop, inject, statics)
         /\ \A k \in 1..n : out.value # DataDescriptor(StaticValue(k))

\* Only the enhancement declares the static property, and reading it on
\* the composed class answered undefined.
C14_Witness ==
  /\ ~statics[0] /\ statics[1]
  /\ out.op = "get" /\ out.prop = "staticProp"
  /\ out.value = UndefinedStatic

\* ----------------------------------------------- identity of the instance
\* The instance a layer of the chain built, outermost first.
RECURSIVE InstancesOf(_)
InstancesOf(inst) == IF inst.raw THEN <<>> ELSE <<inst>> \o InstancesOf(inst.target)

\* C15: an instance constructed from a composed class answers
\* `constructor` with that class, at every depth of a chain: not with the
\* Target class, not with the enhancement, not with an inner composed
\* class.
C15_ConstructorIsComposedClass ==
  sut # NoInstance =>
    /\ get(sut, constructor, baseM, hook, enhM) = ClassValue(Sut)
    /\ get(sut, constructor, baseM, hook, enhM) # ClassValue(RawClass(0))
    /\ \A i \in 1..Len(LayersOf(Sut)) :
         /\ get(InstancesOf(sut)[i], constructor, baseM, hook, enhM)
              = ClassValue(LayersOf(Sut)[i])
         /\ i > 1 => get(sut, constructor, baseM, hook, enhM) # ClassValue(LayersOf(Sut)[i])
         /\ get(sut, constructor, baseM, hook, enhM)
              # ClassValue(RawClass(LayersOf(Sut)[i].Enhancement))

\* An instance of a class enhanced twice has been constructed.
C15_Witness ==
  /\ n = 2 /\ sut # NoInstance
  /\ Len(InstancesOf(sut)) = 2
  /\ get(sut, constructor, baseM, hook, enhM).cls.Target.Target = RawClass(0)

\* C16: an instance constructed from a composed class, with one
\* enhancement or several, is an instance of the original Target class.
C16_InstanceOfBase ==
  sut # NoInstance =>
    /\ instanceOf(sut, 0)
    /\ \A i \in 1..Len(InstancesOf(sut)) : instanceOf(InstancesOf(sut)[i], 0)
    /\ \A k \in 1..n : ~instanceOf(sut, k)

\* An instance of a class enhanced twice, with declared dependencies, has
\* been constructed.
C16_Witness ==
  /\ n = 2 /\ sut # NoInstance
  /\ ~sut.raw /\ ~sut.target.raw /\ sut.target.target.raw
  /\ sut.target.target.cls = 0
  /\ Len(StaticInject(Sut, inject).list) > 0

\* ---------------------------------------- own properties of the instances
\* The keys the constructors create on their instances.
KeyName == <<"baseId", "id", "title", "label">>
Keys == {KeyName[i] : i \in 1..MaxKey}
KeyLists == {l \in SeqsUpTo(Keys, MaxKey) : NoRepeat(l)}

\* The value the constructor of class c stores under a key.
PropValue(c, key) == [what |-> "own", of |-> c, key |-> key]

\* Object.getOwnPropertyDescriptor on an instance of a class the user wrote.
OwnDescriptor(c, key, ow) ==
  IF key \in Range(ow[c]) THEN DataDescriptor(PropValue(c, key)) ELSE UndefinedDescriptor

\* if (typeof result === 'undefined') result = <the target's>   (219-221)
firstDefinedOfTarget(result, fallback) ==
  IF fallback = UndefinedDescriptor THEN result ELSE fallback

firstDefined(result, fallback) ==
  IF result = UndefinedDescriptor THEN fallback ELSE result

\* The getOwnPropertyDescriptor trap of enhanceInstance (217-224).
RECURSIVE getOwnPropertyDescriptor(_, _, _)
getOwnPropertyDescriptor(inst, key, ow) ==
  IF inst.raw THEN OwnDescriptor(inst.cls, key, ow)
  ELSE firstDefined(OwnDescriptor(inst.enhancement.cls, key, ow),
                    getOwnPropertyDescriptor(inst.target, key, ow))

\* [...new Set(list)]: the first occurrence of each element, in order.
RECURSIVE Distinct(_)
Distinct(l) ==
  IF Len(l) = 0 THEN l
  ELSE LET front == Distinct(SubSeq(l, 1, Len(l) - 1))
       IN IF l[Len(l)] \in Range(front) THEN front ELSE Append(front, l[Len(l)])

NewSetKeepAll(l) == l

NewSet(l) == Distinct(l)

\* The ownKeys trap of enhanceInstance (233-235).
RECURSIVE ownKeys(_, _)
ownKeys(inst, ow) ==
  IF inst.raw THEN ow[inst.cls]
  ELSE NewSet(ownKeys(inst.target, ow) \o ow[inst.enhancement.cls])

\* Object.keys: the own keys whose descriptor is enumerable.
ObjectKeys(inst, ow) ==
  SelectSeq(ownKeys(inst, ow),
            LAMBDA key : /\ getOwnPropertyDescriptor(inst, key, ow) # UndefinedDescriptor
                         /\ getOwnPropertyDescriptor(inst, key, ow).enumerable)

\* The constructors create own properties; the instance is built.
InitOwn ==
  /\ n \in 1..MaxEnh
  /\ inject = [c \in 0..n |-> Absent]
  /\ own \in [0..n -> KeyLists]
  /\ statics = [c \in 0..n |-> FALSE]
  /\ enhM = [k \in 1..n |-> "none"]
  /\ baseM = "none"
  /\ hook = "none"
  /\ how = "variadic"
  /\ Sut = enhance(EnhList(n), RawClass(0), inject)
  /\ sut = construct(Sut, <<>>).instance
  /\ resolve = <<>>
  /\ ctorLog = construct(Sut, <<>>).ctors
  /\ calls = <<>>
  /\ log = <<>>
  /\ out = NoOut

\* Reflect.ownKeys(sut)
ReflectOwnKeys ==
  /\ out' = [op |-> "ownKeys", value |-> ownKeys(sut, own)]
  /\ UNCHANGED <<n, inject, enhM, baseM, hook, how, Sut, sut, resolve, ctorLog, calls, log,
                 statics, own>>

\* Object.keys(sut)
ReadObjectKeys ==
  /\ out' = [op |-> "keys", value |-> ObjectKeys(sut, own)]
  /\ UNCHANGED <<n, inject, enhM, baseM, hook, how, Sut, sut, resolve, ctorLog, calls, log,
                 statics, own>>

\* Object.getOwnPropertyDescriptor(sut, key)
DescribeOwn(key) ==
  /\ out' = [op |-> "getOwnPropertyDescriptor", prop |-> key,
             value |-> getOwnPropertyDescriptor(sut, key, own)]
  /\ UNCHANGED <<n, inject, enhM, baseM, hook, how, Sut, sut, resolve, ctorLog, calls, log,
                 statics, own>>

NextOwn ==
  \/ ReflectOwnKeys
  \/ ReadObjectKeys
  \/ \E key \in Keys : DescribeOwn(key)

SpecOwn == InitOwn /\ [][NextOwn]_vars

\* The keys of the chain up to enhancement k, written from the instances'
\* own keys alone: the inner keys, then the keys of k the inner side lacks.
RECURSIVE KeysUpTo(_)
KeysUpTo(k) ==
  IF k = 0 THEN own[0]
  ELSE KeysUpTo(k - 1) \o SelectSeq(own[k], LAMBDA key : key \notin Range(KeysUpTo(k - 1)))

\* C17: enumerating the own keys of a composed instance gives the Target
\* instance's keys in their order, then the enhancement instance's keys
\* the Target instance lacks, in their order; no key twice, none missing.
C17_OwnKeys ==
  out.op \in {"ownKeys", "keys"} =>
    /\ out.value = KeysUpTo(n)
    /\ SubSeq(out.value, 1, Len(own[0])) = own[0]
    /\ NoRepeat(out.value)
    /\ Range(out.value) = UNION {Range(own[c]) : c \in 0..n}

\* The Target instance has two keys, the enhancement instance shares one
\* of them; Object.keys answered.
C17_Witness ==
  /\ n = 1 /\ Len(own[0]) = 2 /\ own[1] = <<own[0][2]>>
  /\ out.op = "keys"
  /\ out.value = own[0]

\* C18: the descriptor of a name on a composed instance is the
\* enhancement instance's own descriptor when it has one, else the one the
\* Target side answers; when both own the name the enhancement's
\* descriptor and value are answered.
C18_OwnDescriptor ==
  out.op = "getOwnPropertyDescriptor" /\ out.prop \in Keys =>
    /\ out.prop \in Range(own[n]) => out.value = DataDescriptor(PropValue(n, out.prop))
    /\ out.prop \notin Range(own[n]) =>
         out.value = getOwnPropertyDescriptor(sut.target, out.prop, own)
    /\ LET owners == {c \in 0..n : out.prop \in Range(own[c])} IN
         IF owners = {} THEN out.value = UndefinedDescriptor
         ELSE out.value =
                DataDescriptor(PropValue(CHOOSE c \in owners : \A d \in owners : d <= c, out.prop))

\* Both instances own the name, and the descriptor answered carries the
\* enhancement's value.
C18_Witness ==
  /\ n = 1
  /\ out.op = "getOwnPropertyDescriptor" /\ out.prop \in Keys
  /\ out.prop \in Range(own[0]) /\ out.prop \in Range(own[1])
  /\ out.value.value = PropValue(1, out.prop)

\* ------------------------------------------------------- chains of layers
\* The hook events of call c, in order.
HookEvents(c) == SelectSeq(log, LAMBDA e : e.call = c /\ e.ev = "hook")

\* C25: with the hook on the Target instance and the method on every
\* enhancement of a chain of n, one call on the outer instance invokes the
\* hook n times, for the layers n, ..., 1 in that order, each time with
\* that layer's value and enhancement instance, after that layer's method
\* and before the method of the next layer in.
C25_HookPerLayer ==
  \A c \in DOMAIN calls :
    (/\ hook = "ok" /\ baseM # "native"
     /\ \A k \in 1..n : enhM[k] \in {"sync", "async"}) =>
      /\ Len(HookEvents(c)) <= n
      /\ \A i \in 1..Len(HookEvents(c)) :
           /\ HookEvents(c)[i].layer = n + 1 - i
           /\ HookEvents(c)[i].value = Returned(n + 1 - i, calls[c].args)
           /\ HookEvents(c)[i].enh = EnhancementAt(sut, n + 1 - i)
      /\ \A k \in 1..n : \A h \in IndicesAt(c, "hook", k) :
           /\ \E e \in IndicesAt(c, "enh", k) : e < h
           /\ \A e \in Indices(c) : (IsInvocation(log[e]) /\ log[e].layer < k) => h < e
      /\ (Done(c) /\ NoFaults(c)) => Len(HookEvents(c)) = n

\* A chain of two on a Target with the hook and the method: the call ran
\* both hooks, the outer layer's first.
C25_Witness ==
  /\ n = 2 /\ hook = "ok" /\ baseM = "sync"
  /\ enhM[1] = "sync" /\ enhM[2] = "async"
  /\ Done(1) /\ NoFaults(1)
  /\ [i \in 1..Len(log) |-> log[i].ev] = <<"enh", "settle", "hook", "enh", "hook", "base">>
  /\ log[3].layer = 2 /\ log[5].layer = 1

\* The composed view over the Target and the first k enhancements.
ViewUpTo(inst, k) ==
  IF k = 0 THEN RawTarget(inst) ELSE InstancesOf(inst)[Len(InstancesOf(inst)) + 1 - k]

\* C27: constructing an instance of a chain of n runs the constructors of
\* the Target, enh_1, ..., enh_n in that order, each once, and the first
\* argument of enh_k's constructor is the view over the Target and
\* enh_1..enh_(k-1): the Target instance for k = 1, never a view with
\* enh_k in it.
C27_ConstructionOrder ==
  sut # NoInstance =>
    /\ Len(ctorLog) = n + 1
    /\ \A i \in 1..Len(ctorLog) : ctorLog[i].cls = i - 1
    /\ \A k \in 1..n :
         /\ ctorLog[k + 1].target = ViewUpTo(sut, k - 1)
         /\ Depth(ctorLog[k + 1].target) = k - 1
         /\ EnhancementAt(ctorLog[k + 1].target, k) = NoInstance
         /\ EnhancementAt(sut, k).target = ctorLog[k + 1].target
    /\ ctorLog[2].target.raw /\ ctorLog[2].target.cls = 0

\* A chain of two was constructed: the second enhancement received the
\* view over the Target and the first.
C27_Witness ==
  /\ n = 2 /\ sut # NoInstance
  /\ Len(ctorLog) = 3
  /\ ~ctorLog[3].target.raw
  /\ ctorLog[3].target.enhancement.cls = 1
  /\ ctorLog[3].target.target = ctorLog[2].target

\* C29 (as stated by the specification): for a chain over declared lists the list of the outer class is
\* merge(merge(Target, enh_1), enh_2), and constructing it with the values
\* of that list hands the Target and each enhancement the values of the
\* tokens it declared, in its declared order, shared tokens included.
C29_ChainSplit ==
  /\ Sut # NoClass => StaticInject(Sut, inject).list = CombinedUpTo(n)
  /\ sut # NoInstance =>
       \A c \in 0..n : ctorLog[c + 1].args = ResolveAll(DefaultList(inject[c]), resolve)

\* ------------------------------------------- a hook that comes and goes
\* The Target instance may or may not have the hook when the composed
\* instance is built; every enhancement defines the method.
InitHook ==
  /\ n \in 1..MaxEnh
  /\ inject = [c \in 0..n |-> Absent]
  /\ enhM \in [1..n -> {"sync", "async"}]
  /\ baseM \in {"none", "sync"}
  /\ hook \in {"none", "ok"}
  /\ how = "variadic"
  /\ Sut = enhance(EnhList(n), RawClass(0), inject)
  /\ sut = construct(Sut, <<>>).instance
  /\ resolve = <<>>
  /\ ctorLog = construct(Sut, <<>>).ctors
  /\ calls = [c \in 1..1 |-> NewCall]
  /\ log = <<>>
  /\ NothingReflected

\* Installations and removals of the hook so far.
Toggles == {i \in 1..Len(log) : log[i].ev \in {"install", "remove"}}

\* base.enhancedAttachedReturn = function ...; between two stretches of
\* running code.
InstallHook ==
  /\ Idle
  /\ hook = "none"
  /\ Cardinality(Toggles) < MaxToggle
  /\ hook' = "ok"
  /\ log' = Append(log, Event("install", 0, 0, <<>>, UndefinedValue, NoInstance, 0))
  /\ UNCHANGED <<n, inject, enhM, baseM, how, Sut, sut, resolve, ctorLog, calls,
                 statics, own, out>>

\* delete base.enhancedAttachedReturn
RemoveHook ==
  /\ Idle
  /\ hook # "none"
  /\ Cardinality(Toggles) < MaxToggle
  /\ hook' = "none"
  /\ log' = Append(log, Event("remove", 0, 0, <<>>, UndefinedValue, NoInstance, 0))
  /\ UNCHANGED <<n, inject, enhM, baseM, how, Sut, sut, resolve, ctorLog, calls,
                 statics, own, out>>

\* const method = sut.attached: the get trap answers, nothing is called.
ReadMethod(c) ==
  /\ Idle
  /\ calls[c].st = "new"
  /\ calls' = [calls EXCEPT ![c] =
       [@ EXCEPT !.st = "read", !.fn = get(sut, name, baseM, hook, enhM)]]
  /\ log' = Append(log, Event("read", c, 0, <<>>, UndefinedValue, NoInstance, 0))
  /\ UNCHANGED frame

\* method(...args): the function read earlier is called.
CallRead(c, a) ==
  /\ Idle
  /\ calls[c].st = "read"
  /\ calls' = [calls EXCEPT ![c] =
       [@ EXCEPT !.st = "run", !.pc = "call", !.args = <<a>>, !.passed = <<a>>, !.recv = sut]]
  /\ UNCHANGED <<frame, log>>

NextHook ==
  \/ InstallHook
  \/ RemoveHook
  \/ \E c \in DOMAIN calls : ReadMethod(c)
  \/ \E c \in DOMAIN calls : CallRead(c, 1)
  \/ \E c \in DOMAIN calls : StartCall(c, 1)
  \/ \E c \in DOMAIN calls : CallBase(c)
  \/ \E c \in DOMAIN calls : CallComposed(c)
  \/ \E c \in DOMAIN calls : SettleEnh(c, TRUE)
  \/ \E c \in DOMAIN calls : Resume(c)
  \/ \E c \in DOMAIN calls : InvokeHook(c)
  \/ \E c \in DOMAIN calls : SkipHook(c)
  \/ \E c \in DOMAIN calls : CallTarget(c)
  \/ \E c \in DOMAIN calls : ReturnEnhanced(c)

SpecHook == InitHook /\ [][NextHook]_vars

\* Whether the Target instance had the hook when event i was logged.
HookAt(i) ==
  LET before == {t \in Toggles : t < i} IN
  IF before # {} THEN log[CHOOSE t \in before : \A u \in before : u <= t].ev = "install"
  ELSE IF Toggles = {} THEN hook # "none"
  ELSE log[CHOOSE t \in Toggles : \A u \in Toggles : t <= u].ev = "remove"

\* The hook was missing when it was about to be called.
HookVanished(c) == Done(c) /\ calls[c].result = TypeError

\* C23: the hook is looked up on the Target instance at each call of the
\* composed method and never cached: the function read from the instance
\* is the same whatever the hook was at the reading, a layer whose
\* enhancement returns a plain value invokes the hook exactly when the
\* instance has it at that call, whether it was there when the instance
\* was built or when the method was read.
C23_HookLookedUpPerCall ==
  \A c \in DOMAIN calls :
    /\ calls[c].st = "read" => calls[c].fn = get(sut, name, baseM, hook, enhM)
    /\ \A k \in 1..n : \A e \in IndicesAt(c, "enh", k) :
         enhM[k] = "sync" =>
           /\ IndicesAt(c, "hook", k) # {} => HookAt(e)
           /\ (HookAt(e) /\ PastHook(c, k)) => IndicesAt(c, "hook", k) # {}

\* The instance was built and the method read without the hook; the hook
\* was installed afterwards and the call invoked it.
C23_Witness ==
  /\ n = 1 /\ enhM[1] = "sync"
  /\ Len(log) >= 4
  /\ log[1].ev = "read" /\ log[2].ev = "install" /\ log[3].ev = "enh" /\ log[4].ev = "hook"
  /\ Done(1)

\* C24: on the asynchronous path the decision about the hook is taken
\* when the enhancement's method returns, before its promise settles: the
\* hook is invoked after the settlement only if the instance had it at
\* that moment, so a hook installed while the promise is pending is not
\* invoked for that call; a hook that was there is fetched again after
\* the settlement.
C24_HookDecidedBeforeSettle ==
  \A c \in DOMAIN calls : \A k \in 1..n : \A e \in IndicesAt(c, "enh", k) :
    enhM[k] = "async" =>
      /\ \A h \in IndicesAt(c, "hook", k) : HookAt(e) /\ HookAt(h)
      /\ ~HookAt(e) => IndicesAt(c, "hook", k) = {}
      /\ (HookAt(e) /\ PastHook(c, k) /\ ValueAvailable(c, k))
           => (IndicesAt(c, "hook", k) # {} \/ HookVanished(c))
      /\ (calls[c].st \in {"awaitEnh", "queued"} /\ calls[c].fn.enhancement.cls = k)
           => calls[c].hasLCMethod = HookAt(e)

\* The hook was installed while the enhancement's promise was pending;
\* the call ended without invoking it.
C24_Witness ==
  /\ n = 1 /\ enhM[1] = "async" /\ baseM = "sync"
  /\ Len(log) = 4
  /\ log[1].ev = "enh" /\ log[2].ev = "install" /\ log[3].ev = "settle" /\ log[4].ev = "base"
  /\ Done(1) /\ hook = "ok"

\* ------------------------------------------------- constructors that throw
\* `new Cls(...args)` when the constructors of the classes in `fails`
\* throw: whether an instance was returned, the class whose constructor
\* threw, and the constructors that were invoked, in order (261-269).
RECURSIVE constructOrThrow(_, _, _)
constructOrThrowCarryingOn(Cls, args, fails) ==
  IF Cls.raw
  THEN [ok |-> Cls.id \notin fails, by |-> IF Cls.id \in fails THEN Cls.id ELSE -1,
        instance |-> IF Cls.id \in fails THEN NoInstance
                     ELSE [raw |-> TRUE, cls |-> Cls.id, args |-> args],
        ctors |-> <<[cls |-> Cls.id, target |-> NoInstance, args |-> args]>>]
  ELSE LET t == constructOrThrow(Cls.Target, getForTarget(Cls.injectData, args), fails)
           enhancementArgs == getForEnhancement(Cls.injectData, args)
           enhancementInstance ==
             [cls |-> Cls.Enhancement, target |-> t.instance, args |-> enhancementArgs]
           invoked == Append(t.ctors, enhancementInstance)
       IN IF Cls.Enhancement \in fails \/ ~t.ok
          THEN [ok |-> FALSE, by |-> IF t.ok THEN Cls.Enhancement ELSE t.by,
                instance |-> NoInstance, ctors |-> invoked]
          ELSE [ok |-> TRUE, by |-> -1,
                instance |-> enhanceInstance(Cls, t.instance, enhancementInstance),
                ctors |-> invoked]

constructOrThrow(Cls, args, fails) ==
  IF Cls.raw
  THEN [ok |-> Cls.id \notin fails, by |-> IF Cls.id \in fails THEN Cls.id ELSE -1,
        instance |-> IF Cls.id \in fails THEN NoInstance
                     ELSE [raw |-> TRUE, cls |-> Cls.id, args |-> args],
        ctors |-> <<[cls |-> Cls.id, target |-> NoInstance, args |-> args]>>]
  ELSE LET t == constructOrThrow(Cls.Target, getForTarget(Cls.injectData, args), fails)
           enhancementArgs == getForEnhancement(Cls.injectData, args)
           enhancementInstance ==
             [cls |-> Cls.Enhancement, target |-> t.instance, args |-> enhancementArgs]
           invoked == Append(t.ctors, enhancementInstance)
       IN IF ~t.ok THEN t
          ELSE IF Cls.Enhancement \in fails
          THEN [ok |-> FALSE, by |-> Cls.Enhancement, instance |-> NoInstance,
                ctors |-> invoked]
          ELSE [ok |-> TRUE, by |-> -1,
                instance |-> enhanceInstance(Cls, t.instance, enhancementInstance),
                ctors |-> invoked]

\* The classes are declared and composed; nothing is constructed.
InitFail ==
  /\ n \in 1..MaxEnh
  /\ inject \in [0..n -> EquivDecls(n)]
  /\ enhM = [k \in 1..n |-> "none"]
  /\ baseM = "none"
  /\ hook = "none"
  /\ how = "variadic"
  /\ Sut = enhance(EnhList(n), RawClass(0), inject)
  /\ sut = NoInstance
  /\ resolve = <<>>
  /\ ctorLog = <<>>
  /\ calls = <<>>
  /\ log = <<>>
  /\ NothingReflected

\* new Sut(...values), with the constructors of `fails` throwing.
NewSut(fails) ==
  /\ out = NoOut
  /\ LET made == constructOrThrow(Sut, ResolveAll(StaticInject(Sut, inject).list, OwnValue),
                                  fails)
     IN /\ sut' = made.instance
        /\ ctorLog' = made.ctors
        /\ out' = [op |-> "new", fails |-> fails, ok |-> made.ok, by |-> made.by]
  /\ resolve' = OwnValue
  /\ UNCHANGED <<n, inject, enhM, baseM, hook, how, Sut, calls, log, statics, own>>

NextFail ==
  \E fails \in SUBSET (0..n) : NewSut(fails)

SpecFail == InitFail /\ [][NextFail]_vars

\* The first class, in construction order, whose constructor throws.
FirstFailing(fails) == CHOOSE c \in fails : \A d \in fails : c <= d

\* C21: construction is all or nothing.  When the Target's constructor
\* throws, no enhancement constructor is invoked; when an enhancement's
\* constructor throws after the Target instance was built, no composed
\* instance is returned and the caller gets that failure; without a
\* throwing constructor the construction is the ordinary one.
C21_AllOrNothing ==
  out.op = "new" =>
    IF out.fails = {}
    THEN /\ out.ok /\ sut # NoInstance
         /\ sut = construct(Sut, ResolveAll(StaticInject(Sut, inject).list, resolve)).instance
         /\ ctorLog = construct(Sut, ResolveAll(StaticInject(Sut, inject).list, resolve)).ctors
    ELSE /\ ~out.ok /\ sut = NoInstance
         /\ out.by = FirstFailing(out.fails)
         /\ Len(ctorLog) = out.by + 1
         /\ \A i \in 1..Len(ctorLog) : ctorLog[i].cls = i - 1
         /\ 0 \in out.fails => \A i \in 1..Len(ctorLog) : ctorLog[i].cls = 0
         /\ out.by > 0 => /\ ctorLog[1].cls = 0
                          /\ ctorLog[out.by + 1].target # NoInstance
                          /\ RawTarget(ctorLog[out.by + 1].target).cls = 0

\* The Target instance was built, the second enhancement's constructor
\* threw, and no instance came back.
C21_Witness ==
  /\ n = 2 /\ out.op = "new" /\ out.fails = {2}
  /\ sut = NoInstance /\ ~out.ok /\ out.by = 2
  /\ Len(ctorLog) = 3

\* ------------------------------------------------- reading data properties
\* What a property read answers for an own data property, or undefined.
UndefinedData == [what |-> "undefined"]
OwnData(c, key, ow) == IF key \in Range(ow[c]) THEN PropValue(c, key) ELSE UndefinedData

\* typeof value === 'function': the constructors of the model store data.
IsCallable(v) == FALSE

\* The get trap of enhanceInstance (183-194) for a name under which the
\* instances hold plain data: neither side is a function, so neither the
\* native branch nor the composing branch is taken.
getDataOfEnhancement(inst, key, ow) ==
  IF inst.raw THEN OwnData(inst.cls, key, ow)
  ELSE IF OwnData(inst.enhancement.cls, key, ow) # UndefinedData
       THEN OwnData(inst.enhancement.cls, key, ow)
       ELSE OwnData(RawTarget(inst).cls, key, ow)

RECURSIVE getData(_, _, _)
getData(inst, key, ow) ==
  IF inst.raw THEN OwnData(inst.cls, key, ow)
  ELSE LET targetValue == getData(inst.target, key, ow)
           targetIsFn == IsCallable(targetValue)
           enhancementValue == OwnData(inst.enhancement.cls, key, ow)
           enhancementIsFn == IsCallable(enhancementValue)
       IN IF targetIsFn /\ isNativeFn(targetValue) THEN targetValue
          ELSE IF enhancementIsFn
               THEN composeMethod(inst.target, inst.enhancement, key, targetIsFn)
               ELSE targetValue

\* sut[key]
ReadOwn(key) ==
  /\ out' = [op |-> "get", prop |-> key, value |-> getData(sut, key, own)]
  /\ UNCHANGED <<n, inject, enhM, baseM, hook, how, Sut, sut, resolve, ctorLog, calls, log,
                 statics, own>>

NextRead ==
  \/ \E key \in Keys : ReadOwn(key)
  \/ \E key \in Keys : DescribeOwn(key)

SpecRead == InitOwn /\ [][NextRead]_vars

\* C26: a read on a composed instance never answers a value of the
\* enhancement that is not callable: it answers the Target instance's
\* value, undefined when it has none; for a name both sides own as data
\* the read answers the Target's value while the descriptor of the same
\* name carries the enhancement's.
C26_DataReadsTarget ==
  /\ out.op = "get" =>
       /\ out.value = OwnData(0, out.prop, own)
       /\ \A k \in 1..n : out.value # PropValue(k, out.prop)
       /\ (out.prop \in Range(own[0]) /\ out.prop \in Range(own[n])) =>
            /\ getOwnPropertyDescriptor(sut, out.prop, own).value = PropValue(n, out.prop)
            /\ getOwnPropertyDescriptor(sut, out.prop, own).value # out.value
  /\ (/\ out.op = "getOwnPropertyDescriptor"
      /\ out.prop \in Range(own[0]) /\ out.prop \in Range(own[n])) =>
       /\ out.value.value = PropValue(n, out.prop)
       /\ getData(sut, out.prop, own) = PropValue(0, out.prop)

\* Both instances own the name as data; the read answered the Target's
\* value.
C26_Witness ==
  /\ n = 1 /\ out.op = "get"
  /\ out.prop \in Range(own[0]) /\ out.prop \in Range(own[1])
  /\ out.value = PropValue(0, out.prop)
  /\ getOwnPropertyDescriptor(sut, out.prop, own).value = PropValue(1, out.prop)

\* --------------------------------------------------- calls that overlap
\* One enhancement whose method returns a promise, on a Target with the
\* method and the hook; several calls are about to be made.
InitOverlap ==
  /\ n = 1
  /\ inject = [c \in 0..n |-> Absent]
  /\ enhM = [k \in 1..n |-> "async"]
  /\ baseM = "sync"
  /\ hook = "ok"
  /\ how = "variadic"
  /\ Sut = enhance(EnhList(n), RawClass(0), inject)
  /\ sut = construct(Sut, <<>>).instance
  /\ resolve = <<>>
  /\ ctorLog = construct(Sut, <<>>).ctors
  /\ calls = [c \in 1..MaxCalls |-> NewCall]
  /\ log = <<>>
  /\ NothingReflected

\* The c-th call is made with an argument of its own; the promises settle
\* in any order.
NextOverlap ==
  \/ \E c \in DOMAIN calls : StartCall(c, c)
  \/ \E c \in DOMAIN calls : CallComposed(c)
  \/ \E c \in DOMAIN calls, ok \in BOOLEAN : SettleEnh(c, ok)
  \/ \E c \in DOMAIN calls : Resume(c)
  \/ \E c \in DOMAIN calls : InvokeHook(c)
  \/ \E c \in DOMAIN calls : CallTarget(c)
  \/ \E c \in DOMAIN calls : CallBase(c)

SpecOverlap == InitOverlap /\ [][NextOverlap]_vars

\* C28: when asynchronous calls of the method on one instance overlap,
\* each call invokes the Target's method only after its own promise was
\* fulfilled, with its own arguments, gives the hook its own value, and
\* fulfils its own promise with the result of its own Target invocation;
\* the settlement of another call's promise triggers nothing in it.
C28_OverlappingCalls ==
  \A c \in DOMAIN calls :
    /\ Cardinality(IndicesOf(c, "base")) <= 1
    /\ \A b \in IndicesOf(c, "base") :
         /\ log[b].args = <<c>> /\ log[b].args = calls[c].args
         /\ \E s \in IndicesOf(c, "settle") : s < b /\ log[s].value.what = "value"
    /\ \A h \in IndicesOf(c, "hook") :
         /\ log[h].value = [what |-> "value", by |-> 1, args |-> <<c>>]
         /\ \E s \in IndicesOf(c, "settle") : s < h
    /\ calls[c].st \in {"awaitEnh", "new"} => IndicesOf(c, "base") = {} /\ IndicesOf(c, "hook") = {}
    /\ (Done(c) /\ calls[c].outcome = "fulfilled") =>
         /\ calls[c].result = [what |-> "value", by |-> 0, args |-> <<c>>]
         /\ IndicesOf(c, "base") # {}

\* The second call was made while the first promise was pending, the
\* second promise was fulfilled first, and both calls ended with their own
\* results.
C28_Witness ==
  /\ Len(log) = 8
  /\ log[1].ev = "enh" /\ log[1].call = 1
  /\ log[2].ev = "enh" /\ log[2].call = 2
  /\ log[3].ev = "settle" /\ log[3].call = 2
  /\ log[5].ev = "base" /\ log[5].call = 2
  /\ log[6].ev = "settle" /\ log[6].call = 1
  /\ Done(1) /\ Done(2)
  /\ calls[1].result = Returned(0, <<1>>) /\ calls[2].result = Returned(0, <<2>>)

\* ------------------------------------- declarations changed after composing
\* The declarations of the classes that get composed: no `inject`, an empty
\* array, or an array of one token.
FrameDecls == DeclsOver(ChainTokens, 1)

\* The classes are declared and composed; nothing was changed since.
InitFrame ==
  /\ n \in 1..MaxEnh
  /\ inject \in [0..n -> FrameDecls]
  /\ enhM = [k \in 1..n |-> "none"]
  /\ baseM = "none"
  /\ hook = "none"
  /\ how = "variadic"
  /\ Sut = enhance(EnhList(n), RawClass(0), inject)
  /\ sut = NoInstance
  /\ resolve = <<>>
  /\ ctorLog = <<>>
  /\ calls = <<>>
  /\ log = <<>>
  /\ NothingReflected

\* The changes made so far are in the log; a single enhancement leaves
\* room for MaxChange of them.
CanChange == Len(log) < (IF n = 1 THEN MaxChange ELSE 1)

\* The array class c declared when Sut was composed is still the value of
\* its `inject` property: the property was not assigned since.
Captured(c) ==
  /\ inject[c].def
  /\ \A i \in 1..Len(log) : ~(log[i].ev = "reassign" /\ log[i].layer = c)

\* getInjectData keeps its parameters `target` and `enhancement` in the
\* closures it returns (97, 105): they are the arrays the classes declared,
\* not copies, so an array changed in place is changed in the closures too.
RECURSIVE changedInPlace(_, _, _)
changedInPlace(Cls, c, list) ==
  IF Cls.raw THEN Cls
  ELSE [raw |-> FALSE,
        Target |-> changedInPlace(Cls.Target, c, list),
        Enhancement |-> Cls.Enhancement,
        injectData |->
          [list |-> Cls.injectData.list,
           target |-> IF Cls.Target = RawClass(c) THEN list ELSE Cls.injectData.target,
           enhancement |-> IF Cls.Enhancement = c THEN list ELSE Cls.injectData.enhancement,
           enhancementPositions |-> Cls.injectData.enhancementPositions]]

\* An instance holds its composed class (the ProxyClass of enhanceInstance,
\* 164), and through it the same closures: what changes in the class is
\* changed for the instances made before, too.
RECURSIVE instanceChangedInPlace(_, _, _)
instanceChangedInPlace(inst, c, list) ==
  IF inst.raw THEN inst
  ELSE [raw |-> FALSE,
        ProxyClass |-> changedInPlace(inst.ProxyClass, c, list),
        target |-> instanceChangedInPlace(inst.target, c, list),
        enhancement |->
          [cls |-> inst.enhancement.cls,
           target |-> instanceChangedInPlace(inst.enhancement.target, c, list),
           args |-> inst.enhancement.args]]

\* The array of class c is now `list`: the composed class, its instance
\* and the instances the constructors received see it.
ArrayChanged(c, list) ==
  IF Captured(c)
  THEN /\ Sut' = changedInPlace(Sut, c, list)
       /\ sut' = instanceChangedInPlace(sut, c, list)
       /\ ctorLog' = [i \in DOMAIN ctorLog |->
                        [cls |-> ctorLog[i].cls,
                         target |-> instanceChangedInPlace(ctorLog[i].target, c, list),
                         args |-> ctorLog[i].args]]
  ELSE UNCHANGED <<Sut, sut, ctorLog>>

\* C.inject = [...]: the property gets a new array (or is deleted).
Reassign(c, d) ==
  /\ CanChange
  /\ inject' = [inject EXCEPT ![c] = d]
  /\ log' = Append(log, Event("reassign", 0, c, d.list, UndefinedValue, NoInstance, 0))
  /\ UNCHANGED <<n, enhM, baseM, hook, how, Sut, sut, resolve, ctorLog, calls,
                 statics, own, out>>

\* C.inject.push(dep)
Push(c, dep) ==
  /\ CanChange
  /\ inject[c].def
  /\ LET list == Append(inject[c].list, dep) IN
       /\ inject' = [inject EXCEPT ![c] = Declared(list)]
       /\ ArrayChanged(c, list)
  /\ log' = Append(log, Event("push", 0, c, <<dep>>, UndefinedValue, NoInstance, 0))
  /\ UNCHANGED <<n, enhM, baseM, hook, how, resolve, calls, statics, own, out>>

\* C.inject.pop()
Pop(c) ==
  /\ CanChange
  /\ inject[c].def
  /\ Len(inject[c].list) > 0
  /\ LET list == SubSeq(inject[c].list, 1, Len(inject[c].list) - 1) IN
       /\ inject' = [inject EXCEPT ![c] = Declared(list)]
       /\ ArrayChanged(c, list)
  /\ log' = Append(log, Event("pop", 0, c, <<>>, UndefinedValue, NoInstance, 0))
  /\ UNCHANGED <<n, enhM, baseM, hook, how, resolve, calls, statics, own, out>>

\* The constructors new Cls(...values) runs, the container having resolved
\* the list it reads from Cls.
Constructions(Cls, inj) ==
  construct(Cls, ResolveAll(StaticInject(Cls, inj).list, OwnValue)).ctors

\* One more instance of Sut is made.
Instantiate ==
  /\ sut' = construct(Sut, ResolveAll(StaticInject(Sut, inject).list, OwnValue)).instance
  /\ ctorLog' = Constructions(Sut, inject)
  /\ resolve' = OwnValue
  /\ UNCHANGED <<n, inject, enhM, baseM, hook, how, Sut, calls, log, statics, own, out>>

NextFrame ==
  \/ \E c \in 0..n, d \in FrameDecls : Reassign(c, d)
  \/ \E c \in 0..n, dep \in ChainTokens : Push(c, dep)
  \/ \E c \in 0..n : Pop(c)
  \/ Instantiate
  \/ \E prop \in {"inject"} : ReadStatic(prop)

SpecFrame == InitFrame /\ [][NextFrame]_vars

\* C22 (as stated by the specification): once the class is composed, no
\* change to the declared lists of its classes (an assignment, a token
\* added or removed in place) and no instantiation changes the list read
\* from the composed class or the arguments its constructions pass to the
\* constructors of the Target and of the enhancements.
C22_FixedAtComposition ==
  [][/\ StaticInject(Sut', inject') = StaticInject(Sut, inject)
     /\ Constructions(Sut', inject') = Constructions(Sut, inject)]_vars
====
